---- MODULE Spec2Model ----
(***************************************************************************)
(* A model of the Ints interpreter (cad3n123/ints): the runtime value      *)
(* model (Value, DynamicArray), the scope chain, the statement handlers of *)
(* the evaluator and the module loader behind `use`.                       *)
(*                                                                         *)
(* Three specifications share the variables:                               *)
(*   LoadSpec   interpretFile / interpretUse over a set of source files    *)
(*   Spec       the evaluator running statements of main and its callees   *)
(*   ValueSpec  the arithmetic and comparison operators of Value           *)
(***************************************************************************)
EXTENDS Integers, Sequences, FiniteSets, TLC

(***************************************************************************)
(* Bounds of the model.                                                    *)
(***************************************************************************)
MaxFiles == 2     \* source files that exist on disk
MaxItems == 2     \* top-level items in one source file
MaxLen   == 2     \* longest array literal and longest array kept in a scope
MaxLit   == 1     \* integer literals are 0 .. MaxLit

\* absent std::optional<size_t> of ArrayDescriptor::size
NoSize == -1

(***************************************************************************)
(* Small helpers.                                                          *)
(***************************************************************************)
SeqsUpTo(S, n) == UNION {[1..k -> S] : k \in 0..n}

Zeros(n) == [i \in 1..n |-> 0]

Max(a, b) == IF a >= b THEN a ELSE b

Contains(seq, e) == \E i \in 1..Len(seq) : seq[i] = e

(***************************************************************************)
(* Value: std::variant<std::vector<int>, DynamicArray> plus `minimum`.     *)
(* kind "vector" is the Growable storage, kind "DynamicArray" the Fixed    *)
(* one.  A thrown std::runtime_error is the record of kind "error".        *)
(***************************************************************************)
Value(kind, data, minimum) == [kind |-> kind, data |-> data, minimum |-> minimum]

Thrown(what) == [kind |-> "error", what |-> what]

IsError(v) == v.kind = "error"

IsArray(v) == v.kind \in {"vector", "DynamicArray"}

\* Value::getSize: the length of the storage, whatever its kind
getSize(v) == Len(v.data)

(***************************************************************************)
(* Value::operator=.  The destination keeps its storage kind and its       *)
(* minimum; the checks read this->minimum and, for a DynamicArray source,  *)
(* other.minimum (not the source's size).  Indexing a buffer outside its   *)
(* size is undefined behaviour and is reported as kind "undefined".        *)
(***************************************************************************)
AssignVectorFromDynamic(this, other) ==
    \* for i < this.size: this[i] = other.at(i), 0 when out of range;
    \* then push_back other[i] for this.size <= i < other.size
    [i \in 1..Max(Len(this.data), Len(other.data)) |->
        IF i <= Len(other.data) THEN other.data[i] ELSE 0]

AssignFixedNoCheck(this, other) ==
    IF this.minimum > Len(this.data) \/ this.minimum > Len(other.data)
    THEN [kind |-> "undefined"]
    ELSE [this EXCEPT !.data = [i \in 1..Len(this.data) |->
                IF i <= this.minimum THEN other.data[i] ELSE this.data[i]]]

\* AssignFixed without the comparison of the two lengths
AssignFixed_Unchecked(this, other) ==
    IF this.minimum > Len(other.data)
    THEN [this EXCEPT !.data = AssignVectorFromDynamic(this, other)]
    ELSE AssignFixedNoCheck(this, other)

AssignFixed(this, other) ==
    IF other.kind = "vector"
    THEN IF this.minimum /= Len(other.data)
         THEN Thrown("Cannot set value. Destination length is not equal to the sources length")
         ELSE AssignFixedNoCheck(this, other)
    ELSE IF this.minimum /= other.minimum
         THEN Thrown("Cannot set value. Destination length is not equal to the sources length")
         ELSE AssignFixedNoCheck(this, other)

AssignGrowable(this, other) ==
    IF other.kind = "vector"
    THEN IF this.minimum > Len(other.data)
         THEN Thrown("Cannot set value. Destination minimum is larger than the sources length")
         ELSE [this EXCEPT !.data = other.data]
    ELSE IF this.minimum > other.minimum
         THEN Thrown("Cannot set value. Destination minimum (" \o ToString(this.minimum)
                     \o ") is larger than the sources length ("
                     \o ToString(other.minimum) \o ")")
         ELSE [this EXCEPT !.data = AssignVectorFromDynamic(this, other)]

ValueAssign(this, other) ==
    IF this.kind = "vector" THEN AssignGrowable(this, other)
                            ELSE AssignFixed(this, other)

(***************************************************************************)
(* ArrayDescriptor{size?, canGrow} and Value::fromDescriptor.              *)
(***************************************************************************)
Descriptor(size, canGrow) == [size |-> size, canGrow |-> canGrow]

NoValue == [kind |-> "nullopt"]

GrowableFromDescriptor(descriptor, value) ==
    \* std::vector<int> dynamicArray; dynamicArray.reserve(size): reserve
    \* changes the capacity only, so the vector is empty and minimum is 0
    LET result == Value("vector", <<>>, 0)
    IN  IF value /= NoValue THEN ValueAssign(result, value) ELSE result

\* FixedFromDescriptor demanding a value for every descriptor without `+`
FixedFromDescriptor_RequiresValue(descriptor, value) ==
    IF value = NoValue
    THEN Thrown("Static array cannot be defined without a value")
    ELSE IF descriptor.size /= NoSize
    THEN ValueAssign(Value("DynamicArray", Zeros(descriptor.size), descriptor.size),
                     value)
    ELSE value

FixedFromDescriptor(descriptor, value) ==
    IF descriptor.size /= NoSize
    THEN LET result == Value("DynamicArray", Zeros(descriptor.size), descriptor.size)
         IN  IF value /= NoValue THEN ValueAssign(result, value) ELSE result
    ELSE IF value /= NoValue
         THEN value
         ELSE Thrown("Static array cannot be defined without a value")

fromDescriptor(descriptor, value) ==
    IF descriptor.canGrow THEN GrowableFromDescriptor(descriptor, value)
                          ELSE FixedFromDescriptor(descriptor, value)

(***************************************************************************)
(* State.                                                                  *)
(*   files             what readCode + tokenize + RootNode::parse give for *)
(*                     each file name: its top-level items                 *)
(*   phase             where interpret() is                                *)
(*   loadStack         the interpretFile activations, innermost last, each *)
(*                     with the index of the next item of its loop         *)
(*   interpretedFiles  the std::vector<std::string> of interpret()         *)
(*   reads             how often each file was read, tokenized and parsed  *)
(*   scopes            the scope chain, root first; the parent of a scope  *)
(*                     is the one before it                                *)
(*   last              the outcome of the handler that ran last            *)
(***************************************************************************)
VARIABLES files, phase, loadStack, interpretedFiles, reads, scopes, last

loaderVars == <<files, phase, loadStack, interpretedFiles, reads>>

vars == <<files, phase, loadStack, interpretedFiles, reads, scopes, last>>

(***************************************************************************)
(* Names.                                                                  *)
(***************************************************************************)
FileNameOf == <<"a.ints", "b.ints", "c.ints", "d.ints">>

FileNames == {FileNameOf[i] : i \in 1..MaxFiles}

\* functions the files of LoadSpec define
FunctionNames == {"main", "f"}

\* functions of the program Spec evaluates
ProgramFunctions == {"main", "id", "double", "nothing"}

\* the variable the statements of main declare and assign
VariableNames == {"x"}

\* the variable the bodies of ControlSpec declare
ControlVariables == {"y"}

\* the variables the statements of CallSpec declare and assign
CallVariables == {"a", "b"}

ParameterNames == {"argc", "argv", "args", "p"}

\* names interpretFunctionCall dispatches on when no scope defines them
BuiltinFunctions == {"range"}

Identifiers ==
    FunctionNames \cup ProgramFunctions \cup VariableNames \cup CallVariables
        \cup ParameterNames
        \cup BuiltinFunctions \cup ControlVariables \cup {"undeclared"}

(***************************************************************************)
(* Scope: std::unordered_map<std::string, variant<shared_ptr<Value>,       *)
(* shared_ptr<FunctionDefinitionNode>>> with a parent link.                *)
(***************************************************************************)
Undefined == [kind |-> "none"]

EmptyScope == [n \in Identifiers |-> Undefined]

\* Scope::has
has(scope, name) == scope[name] /= Undefined

\* Scope::define with insert_or_assign in the place of emplace
define_Overwriting(scope, name, value) ==
    [scope EXCEPT ![name] = value]

\* Scope::define: unordered_map::emplace leaves an existing entry alone
define(scope, name, value) ==
    IF has(scope, name) THEN scope ELSE [scope EXCEPT ![name] = value]

(***************************************************************************)
(* Module loader: interpret -> interpretFile -> interpretUse.              *)
(***************************************************************************)
UseNode(target) == [item |-> "use", value |-> target]

FunctionDefinitionItem(name, params, body) ==
    [item |-> "fn", identifier |-> name, params |-> params, body |-> body]

\* the items a file of LoadSpec is made of: `use "<file>"` and `fn <name>() -> [+] {}`
TopLevelItems ==
    {UseNode(f) : f \in FileNames} \cup
    {FunctionDefinitionItem(n, <<>>, <<>>) : n \in FunctionNames}

\* what interpretFile can throw before its loop starts: readCode on a file
\* that cannot be opened, tokenize on a character of no token, RootNode::parse
\* on a token that starts no top-level item
Faults == {"readCode", "tokenize", "RootNode::parse"}

FaultItem(stage) == [item |-> "fault", value |-> stage]

\* a file is the items RootNode::parse makes of it, or the fault met on the
\* way to them
FileContents ==
    SeqsUpTo(TopLevelItems, MaxItems) \cup {<<FaultItem(stage)>> : stage \in Faults}

\* the file given on the command line
TopFile == FileNameOf[1]

Frame(file, pos) == [file |-> file, pos |-> pos]

NoEvent == [op |-> "none"]

LoadInit ==
    /\ files \in [FileNames -> FileContents]
    /\ phase = "start"
    /\ loadStack = <<>>
    /\ interpretedFiles = <<>>
    /\ reads = [f \in FileNames |-> 0]
    /\ scopes = <<EmptyScope>>
    /\ last = NoEvent

\* interpretFile's caller continues behind the item that was a `use`
AdvanceTop(stack) ==
    [stack EXCEPT ![Len(stack)].pos = @ + 1]

\* the stage of interpretFile that throws on `filename`, "none" if none does
FaultOf(filename) ==
    IF files[filename] /= <<>> /\ files[filename][1].item = "fault"
    THEN files[filename][1].value
    ELSE "none"

\* the message of the exception of a stage
FaultMessage(stage, filename) ==
    CASE stage = "readCode" -> "Failed to open file: " \o filename
      [] stage = "tokenize" -> "Unexpected character '@' at line 1, char 1"
      [] OTHER -> "Unexpected value ;. Expected let, use, or fn"

\* an exception leaves interpretFile: neither interpretFile, interpretUse,
\* interpret() nor main() has a handler around the call, the exception
\* reaches std::terminate
Uncaught(stage, filename) ==
    /\ phase' = "aborted"
    /\ last' = [op |-> "throw", stage |-> stage, file |-> filename,
                what |-> FaultMessage(stage, filename)]

\* interpret(): the call interpretFile(filename, scope, interpretedFiles)
\* with an empty interpretedFiles; interpretFile reads, tokenizes and parses
\* the file and starts its loop at the first item
InterpretBegin ==
    /\ phase = "start"
    /\ IF FaultOf(TopFile) /= "none"
       THEN /\ Uncaught(FaultOf(TopFile), TopFile)
            /\ UNCHANGED <<reads, loadStack>>
       ELSE /\ phase' = "loading"
            /\ reads' = [reads EXCEPT ![TopFile] = @ + 1]
            /\ loadStack' = <<Frame(TopFile, 1)>>
            /\ last' = last
    /\ UNCHANGED <<files, interpretedFiles, scopes>>

CurrentFrame == loadStack[Len(loadStack)]

CurrentItem == files[CurrentFrame.file][CurrentFrame.pos]

AtItem ==
    /\ phase = "loading"
    /\ loadStack /= <<>>
    /\ CurrentFrame.pos <= Len(files[CurrentFrame.file])

\* the std::find of an interpretUse that calls push_back first
AlreadyInterpreted_AfterPushBack(filename) ==
    Contains(Append(interpretedFiles, filename), filename)

AlreadyInterpreted(filename) == Contains(interpretedFiles, filename)

\* interpretUse: std::find over interpretedFiles, push_back, interpretFile
InterpretUse ==
    /\ AtItem
    /\ CurrentItem.item = "use"
    /\ LET filename == CurrentItem.value
       IN  IF AlreadyInterpreted(filename)
           THEN /\ loadStack' = AdvanceTop(loadStack)
                /\ UNCHANGED <<interpretedFiles, reads, phase, last>>
           ELSE IF FaultOf(filename) /= "none"
           THEN /\ interpretedFiles' = Append(interpretedFiles, filename)
                /\ Uncaught(FaultOf(filename), filename)
                /\ UNCHANGED <<reads, loadStack>>
           ELSE /\ interpretedFiles' = Append(interpretedFiles, filename)
                /\ reads' = [reads EXCEPT ![filename] = @ + 1]
                /\ loadStack' = Append(AdvanceTop(loadStack), Frame(filename, 1))
                /\ UNCHANGED <<phase, last>>
    /\ UNCHANGED <<files, scopes>>

\* the shared_ptr<FunctionDefinitionNode> of an item: the node at `index` of
\* the parse of `file`
FunctionDefinitionNode(item, file, index) ==
    [kind |-> "function", identifier |-> item.identifier, params |-> item.params,
     body |-> item.body, file |-> file, index |-> index]

\* interpretFunctionDefinition: define in the root scope
InterpretFunctionDefinition ==
    /\ AtItem
    /\ CurrentItem.item = "fn"
    /\ scopes' = [scopes EXCEPT ![1] =
            define(@, CurrentItem.identifier,
                   FunctionDefinitionNode(CurrentItem, CurrentFrame.file,
                                          CurrentFrame.pos))]
    /\ loadStack' = AdvanceTop(loadStack)
    /\ UNCHANGED <<files, phase, interpretedFiles, reads, last>>

\* the loop of interpretFile is over: return to the caller, or to interpret()
InterpretFileReturn ==
    /\ phase = "loading"
    /\ loadStack /= <<>>
    /\ CurrentFrame.pos > Len(files[CurrentFrame.file])
    /\ loadStack' = SubSeq(loadStack, 1, Len(loadStack) - 1)
    /\ phase' = IF Len(loadStack) = 1 THEN "loaded" ELSE phase
    /\ UNCHANGED <<files, interpretedFiles, reads, scopes, last>>

(***************************************************************************)
(* C1: during one run of interpret every file name is read, tokenized,     *)
(* parsed and processed at most once, whatever the `use` graph, also when  *)
(* a used file names the top-level file.                                   *)
(***************************************************************************)
C1_EachFileLoadedAtMostOnce == \A f \in FileNames : reads[f] <= 1

(***************************************************************************)
(* The scope chain.  `chain` is a sequence of scopes, root first; lookup   *)
(* starts at the last scope and follows the parent links.                  *)
(***************************************************************************)
\* hasRecursive looking at the scope itself and at the root scope only
hasRecursive_Lexical(chain, name) ==
    has(chain[Len(chain)], name) \/ has(chain[1], name)

\* Scope::hasRecursive
hasRecursive(chain, name) == \E i \in 1..Len(chain) : has(chain[i], name)

\* the scope of the name that is farthest from the current scope
Nearest_Outermost(chain, name) ==
    CHOOSE i \in 1..Len(chain) :
        /\ has(chain[i], name)
        /\ \A j \in 1..(i - 1) : ~has(chain[j], name)

\* the scope Scope::get and Scope::set end up in: the nearest with the name
Nearest(chain, name) ==
    CHOOSE i \in 1..Len(chain) :
        /\ has(chain[i], name)
        /\ \A j \in (i + 1)..Len(chain) : ~has(chain[j], name)

\* Scope::get
get(chain, name) ==
    IF hasRecursive(chain, name)
    THEN chain[Nearest(chain, name)][name]
    ELSE Thrown("Undefined variable: " \o name)

\* Scope::set writing through to every entry that holds what the nearest
\* entry of the name holds, as if equal arrays shared one buffer
set_Aliased(chain, name, value) ==
    IF hasRecursive(chain, name)
    THEN LET old == chain[Nearest(chain, name)][name]
         IN  [i \in 1..Len(chain) |->
                 [n \in Identifiers |->
                     IF (i = Nearest(chain, name) /\ n = name) \/ chain[i][n] = old
                     THEN value
                     ELSE chain[i][n]]]
    ELSE Thrown("Undefined variable for assignment: " \o name)

\* Scope::set: insert_or_assign in the nearest scope that has the name; the
\* entry is replaced by the new shared_ptr, Value::operator= is not involved
set(chain, name, value) ==
    IF hasRecursive(chain, name)
    THEN [chain EXCEPT ![Nearest(chain, name)][name] = value]
    ELSE Thrown("Undefined variable for assignment: " \o name)

(***************************************************************************)
(* Integer arithmetic on elements.  Division by zero and the conversion of *)
(* sqrt of a negative number to int are undefined behaviour: with `ub` =   *)
(* "trap" the process is killed, with `ub` = "value" the operation yields  *)
(* some integer.                                                           *)
(***************************************************************************)
UndefinedOutcomes == {"trap", "value"}

Undefined_Behaviour == [kind |-> "undefined"]

IsAbrupt(v) == v.kind \in {"error", "undefined"}

Abs(x) == IF x < 0 THEN -x ELSE x

\* C++ integer division truncates toward zero
TruncDiv(a, b) ==
    IF (a < 0) = (b < 0) THEN Abs(a) \div Abs(b) ELSE -(Abs(a) \div Abs(b))

\* static_cast<int>(sqrt(x)) for x >= 0
ISqrt(x) == CHOOSE r \in 0..x : r * r <= x /\ (r + 1) * (r + 1) > x

\* the int operators of C++; the elements of the model stay far from
\* INT_MAX, so no operation overflows
\* ArithmeticNode::Type and IfCompareNode::Type
ArithmeticTypes == {"+", "-", "*", "/"}

CompareTypes == {"EQ", "NE", "LT", "LE", "GT", "GE"}

\* the std::runtime_error of an operator applied to arrays of two sizes
DifferentSizes(type) ==
    CASE type = "+" -> Thrown("Cannot add arrays with different sizes")
      [] type = "-" -> Thrown("Cannot subtract arrays with different sizes")
      [] type = "*" -> Thrown("Cannot multiply arrays with different sizes")
      [] type = "/" -> Thrown("Cannot divide arrays with different sizes")

ElementOp(type, a, b) ==
    CASE type = "+" -> a + b
      [] type = "-" -> a - b
      [] type = "*" -> a * b
      [] type = "/" -> IF b = 0 THEN 0 ELSE TruncDiv(a, b)

\* DynamicArray::operator+ - * /
DynamicArrayArithmetic(type, left, right, ub) ==
    IF Len(left) /= Len(right)
    THEN DifferentSizes(type)
    ELSE IF type = "/" /\ ub = "trap" /\ \E i \in 1..Len(right) : right[i] = 0
    THEN Undefined_Behaviour
    ELSE Value("DynamicArray",
               [i \in 1..Len(left) |-> ElementOp(type, left[i], right[i])],
               Len(left))

\* Value::sameSize
sameSize(a, b) == Len(a.data) = Len(b.data)

\* Value::operator+ - * /
\* ValueArithmetic cutting the longer operand to the length of the shorter
ValueArithmetic_Truncating(type, left, right, ub) ==
    LET n == IF Len(left.data) < Len(right.data) THEN Len(left.data)
                                                 ELSE Len(right.data)
    IN  DynamicArrayArithmetic(type, SubSeq(left.data, 1, n),
                               SubSeq(right.data, 1, n), ub)

ValueArithmetic(type, left, right, ub) ==
    IF ~sameSize(left, right)
    THEN DifferentSizes(type)
    ELSE DynamicArrayArithmetic(type, left.data, right.data, ub)

(***************************************************************************)
(* Comparisons: DynamicArray::operator== != < <= > >= and their Value      *)
(* wrappers.  Each returns false on a size mismatch and otherwise requires *)
(* the relation at every index.                                            *)
(***************************************************************************)
ElementRelation(type, a, b) ==
    CASE type = "EQ" -> a = b
      [] type = "NE" -> a /= b
      [] type = "LT" -> a < b
      [] type = "LE" -> a <= b
      [] type = "GT" -> a > b
      [] type = "GE" -> a >= b

\* DynamicArrayCompare with != as the negation of ==
DynamicArrayCompare_NegatedEquality(type, left, right) ==
    IF type = "NE"
    THEN Len(left) /= Len(right) \/ \E i \in 1..Len(left) : left[i] /= right[i]
    ELSE IF Len(left) /= Len(right) THEN FALSE
    ELSE \A i \in 1..Len(left) : ElementRelation(type, left[i], right[i])

DynamicArrayCompare(type, left, right) ==
    IF Len(left) /= Len(right) THEN FALSE
    ELSE \A i \in 1..Len(left) : ElementRelation(type, left[i], right[i])

ValueCompare(type, left, right) ==
    IF ~sameSize(left, right) THEN FALSE
    ELSE DynamicArrayCompare(type, left.data, right.data)

(***************************************************************************)
(* AST nodes of expressions (include/parser/parse.h).                      *)
(***************************************************************************)
VectorNode(ints) == [node |-> "vector", ints |-> ints]

IdentifierNode(name) == [node |-> "identifier", name |-> name]

FunctionCallNode(identifier, parameters) ==
    [node |-> "call", identifier |-> identifier, parameters |-> parameters]

ArithmeticNode(type, left, right) ==
    [node |-> "arithmetic", type |-> type, left |-> left, right |-> right]

ArrayRangeNode(start, end) == [node |-> "range", start |-> start, end |-> end]

MethodNode(identifier, parameters) ==
    [node |-> "method", identifier |-> identifier, parameters |-> parameters]

ExpressionNode(primary, postfix) == [primary |-> primary, postfix |-> postfix]

\* a bound of a range: absent, a size_t literal or an expression
SizeBound(n) == [kind |-> "size_t", size |-> n]

ExpressionBound(e) == [kind |-> "expression", expression |-> e]

ReturnNode(expression) == [node |-> "return", value |-> expression]

FunctionParameterNode(identifier, descriptor) ==
    [identifier |-> identifier, descriptor |-> descriptor]

(***************************************************************************)
(* Expression evaluation.  Every operator returns a Value, a thrown error  *)
(* or the undefined-behaviour outcome; the first abrupt outcome of a       *)
(* sub-evaluation is the outcome of the whole.                             *)
(***************************************************************************)
FirstAbrupt(values) ==
    values[CHOOSE i \in 1..Len(values) :
              /\ IsAbrupt(values[i])
              /\ \A j \in 1..(i - 1) : ~IsAbrupt(values[j])]

AnyAbrupt(values) == \E i \in 1..Len(values) : IsAbrupt(values[i])

RECURSIVE interpretExpression(_, _, _)
RECURSIVE interpretFunctionCall(_, _, _)

\* interpretParameters: the arguments, left to right
interpretParameters(parameters, chain, ub) ==
    [i \in 1..Len(parameters) |-> interpretExpression(parameters[i], chain, ub)]

\* interpretArray
interpretArray(array, chain, ub) ==
    CASE array.node = "vector" -> Value("vector", array.ints, Len(array.ints))
      [] array.node = "identifier" ->
            LET binding == get(chain, array.name)
            IN  IF binding.kind = "function"
                \* *std::get_if<shared_ptr<Value>>(..) on a function entry
                \* dereferences a null pointer
                THEN Undefined_Behaviour
                ELSE binding
      [] array.node = "call" -> interpretFunctionCall(array, chain, ub)

\* interpretArithmetic
interpretArithmetic(arithmetic, chain, ub) ==
    LET left  == interpretExpression(arithmetic.left, chain, ub)
        right == interpretExpression(arithmetic.right, chain, ub)
    IN  IF IsAbrupt(left) THEN left
        ELSE IF IsAbrupt(right) THEN right
        ELSE ValueArithmetic(arithmetic.type, left, right, ub)

\* applyAppend
applyAppend(value, parameters) ==
    IF Len(parameters) /= 1
    THEN Thrown("append expects 1 argument with type []")
    ELSE Value("DynamicArray", value.data \o parameters[1].data,
               Len(value.data) + Len(parameters[1].data))

\* applySqrt
applySqrt(value, parameters, ub) ==
    IF Len(parameters) /= 0
    THEN Thrown("sqrt expects 0 arguments")
    ELSE IF ub = "trap" /\ \E i \in 1..Len(value.data) : value.data[i] < 0
    THEN Undefined_Behaviour
    ELSE Value("DynamicArray",
               [i \in 1..Len(value.data) |->
                   IF value.data[i] < 0 THEN 0 ELSE ISqrt(value.data[i])],
               Len(value.data))

\* applySize
applySize(value, parameters) ==
    IF Len(parameters) /= 0
    THEN Thrown("size expects 0 arguments")
    ELSE Value("DynamicArray", <<getSize(value)>>, 1)

\* applyMethod
applyMethod(value, method, chain, ub) ==
    LET parameters == interpretParameters(method.parameters, chain, ub)
    IN  IF AnyAbrupt(parameters) THEN FirstAbrupt(parameters)
        ELSE CASE method.identifier = "append" -> applyAppend(value, parameters)
               [] method.identifier = "sqrt" -> applySqrt(value, parameters, ub)
               [] method.identifier = "size" -> applySize(value, parameters)
               [] OTHER -> Thrown("Unknown method " \o method.identifier)

\* interpretArrayRangeBound: the bound as a size_t, or the abrupt outcome
interpretArrayRangeBound(bound, chain, ub) ==
    IF bound.kind = "size_t" THEN bound
    ELSE LET result == interpretExpression(bound.expression, chain, ub)
         IN  IF IsAbrupt(result) THEN result
             ELSE IF Len(result.data) /= 1 \/ result.data[1] < 0
             THEN Thrown("Array Bounds value must be an integer or evaluate to an array with 1 positive value")
             ELSE SizeBound(result.data[1])

\* interpretArrayRange
\* interpretArrayRange passing the size of the sliced array, not of the
\* slice, as the minimum of its result
interpretArrayRange_SizeOfWhole(range, value, chain, ub) ==
    LET size   == getSize(value)
        startV == IF range.start = NoValue THEN SizeBound(0) ELSE range.start
        endV   == IF range.end = NoValue THEN SizeBound(size) ELSE range.end
        start  == interpretArrayRangeBound(startV, chain, ub)
        end    == interpretArrayRangeBound(endV, chain, ub)
    IN  IF IsAbrupt(start) THEN start
        ELSE IF IsAbrupt(end) THEN end
        ELSE IF end.size < start.size
        THEN Thrown("Array Range upper bound must be greater than or equal to the lower bound")
        ELSE IF end.size > size
        THEN Thrown("Array range bounds must be smaller than the length of the array")
        ELSE Value("DynamicArray",
                   [i \in 1..(end.size - start.size) |-> value.data[i + start.size]],
                   size)

interpretArrayRange(range, value, chain, ub) ==
    LET size   == getSize(value)
        startV == IF range.start = NoValue THEN SizeBound(0) ELSE range.start
        endV   == IF range.end = NoValue THEN SizeBound(size) ELSE range.end
        start  == interpretArrayRangeBound(startV, chain, ub)
        end    == interpretArrayRangeBound(endV, chain, ub)
    IN  IF IsAbrupt(start) THEN start
        ELSE IF IsAbrupt(end) THEN end
        ELSE IF end.size < start.size
        THEN Thrown("Array Range upper bound must be greater than or equal to the lower bound")
        ELSE IF end.size > size
        THEN Thrown("Array range bounds must be smaller than the length of the array")
        ELSE Value("DynamicArray",
                   [i \in 1..(end.size - start.size) |-> value.data[i + start.size]],
                   end.size - start.size)

RECURSIVE applyPostfix(_, _, _, _)
\* applyPostfix: the postfix operations, left to right
applyPostfix(value, postfix, chain, ub) ==
    IF postfix = <<>> THEN value
    ELSE LET next == IF Head(postfix).node = "range"
                     THEN interpretArrayRange(Head(postfix), value, chain, ub)
                     ELSE applyMethod(value, Head(postfix), chain, ub)
         IN  IF IsAbrupt(next) THEN next
             ELSE applyPostfix(next, Tail(postfix), chain, ub)

\* interpretExpression
interpretExpression(expression, chain, ub) ==
    LET value == IF expression.primary.node = "arithmetic"
                 THEN interpretArithmetic(expression.primary, chain, ub)
                 ELSE interpretArray(expression.primary, chain, ub)
    IN  IF IsAbrupt(value) THEN value
        ELSE applyPostfix(value, expression.postfix, chain, ub)

\* interpretRange with the elements 1 .. length
interpretRange_FromOne(functionCall, chain, ub) ==
    IF Len(functionCall.parameters) /= 1
    THEN Thrown("Function range expected 1 argument")
    ELSE LET param1 == interpretExpression(functionCall.parameters[1], chain, ub)
         IN  IF IsAbrupt(param1) THEN param1
             ELSE IF Len(param1.data) /= 1
             THEN Thrown("Function range expected 1 argument with size [1]")
             ELSE IF param1.data[1] < 0
             THEN Thrown("Function range expected 1 non-negative argument with size [1]")
             ELSE Value("DynamicArray",
                        [i \in 1..param1.data[1] |-> i], param1.data[1])

interpretRange(functionCall, chain, ub) ==
    IF Len(functionCall.parameters) /= 1
    THEN Thrown("Function range expected 1 argument")
    ELSE LET param1 == interpretExpression(functionCall.parameters[1], chain, ub)
         IN  IF IsAbrupt(param1) THEN param1
             ELSE IF Len(param1.data) /= 1
             THEN Thrown("Function range expected 1 argument with size [1]")
             ELSE IF param1.data[1] < 0
             THEN Thrown("Function range expected 1 non-negative argument with size [1]")
             ELSE Value("DynamicArray",
                        [i \in 1..param1.data[1] |-> i - 1], param1.data[1])

\* the parameter scope of a call: define, in order, each parameter from its
\* descriptor and argument
ParameterValues(params, arguments) ==
    [i \in 1..Len(params) |-> fromDescriptor(params[i].descriptor, arguments[i])]

ParameterScope(params, values) ==
    [n \in Identifiers |->
        IF \E i \in 1..Len(params) : params[i].identifier = n
        THEN values[CHOOSE i \in 1..Len(params) :
                        /\ params[i].identifier = n
                        /\ \A j \in 1..(i - 1) : params[j].identifier /= n]
        ELSE Undefined]

\* interpretBody of a function whose body is empty or one return statement
interpretReturnBody(body, chain, ub) ==
    IF body = <<>> THEN NoValue
    ELSE interpretExpression(body[1].value, chain, ub)

\* interpretFunctionCall
interpretFunctionCall(functionCall, chain, ub) ==
    IF hasRecursive(chain, functionCall.identifier)
    THEN LET functionDefinition == get(chain, functionCall.identifier)
         IN  IF functionDefinition.kind /= "function"
             \* *std::get_if<shared_ptr<FunctionDefinitionNode>>(..) on an
             \* array entry dereferences a null pointer
             THEN Undefined_Behaviour
             ELSE LET arguments == interpretParameters(functionCall.parameters, chain, ub)
                      params == functionDefinition.params
                  IN  IF AnyAbrupt(arguments) THEN FirstAbrupt(arguments)
                      ELSE IF Len(params) /= Len(arguments)
                      THEN Thrown("Function " \o functionDefinition.identifier
                                  \o " expected " \o ToString(Len(params))
                                  \o " argument(s) but received "
                                  \o ToString(Len(arguments)))
                      ELSE LET values == ParameterValues(params, arguments)
                           IN  IF AnyAbrupt(values) THEN FirstAbrupt(values)
                               ELSE LET returnValue ==
                                          interpretReturnBody(
                                              functionDefinition.body,
                                              Append(chain, ParameterScope(params, values)),
                                              ub)
                                    IN  IF returnValue = NoValue
                                        THEN Value("DynamicArray", <<>>, 0)
                                        ELSE returnValue
    ELSE CASE functionCall.identifier = "range" -> interpretRange(functionCall, chain, ub)
           [] OTHER -> Thrown("Undefined function '" \o functionCall.identifier \o "'")

(***************************************************************************)
(* The program Spec evaluates, as RootNode::parse returns it for the top   *)
(* file.  The statements of main's body are not fixed: the actions of Spec *)
(* run every sequence of declarations and assignments.                     *)
(*     fn main(argc: [1], argv: [+]) -> [+] { ... }                        *)
(*     fn id(p: []) -> [] { return p; }                                    *)
(*     fn double(p: [+]) -> [+] { return p + p; }                          *)
(*     fn nothing() -> [+] { }                                             *)
(***************************************************************************)
Identifier(name) == ExpressionNode(IdentifierNode(name), <<>>)

Literal(ints) == ExpressionNode(VectorNode(ints), <<>>)

Program ==
    << FunctionDefinitionItem("main",
            << FunctionParameterNode("argc", Descriptor(1, FALSE)),
               FunctionParameterNode("argv", Descriptor(NoSize, TRUE)) >>,
            <<>>),
       FunctionDefinitionItem("id",
            << FunctionParameterNode("p", Descriptor(NoSize, FALSE)) >>,
            << ReturnNode(Identifier("p")) >>),
       FunctionDefinitionItem("double",
            << FunctionParameterNode("p", Descriptor(NoSize, TRUE)) >>,
            << ReturnNode(ExpressionNode(
                   ArithmeticNode("+", Identifier("p"), Identifier("p")), <<>>)) >>),
       FunctionDefinitionItem("nothing", <<>>, <<>>) >>

\* the parameter lists of main: (argc: [1], argv: [+]) and (args: [+])
MainSignatures ==
    { Program[1].params,
      << FunctionParameterNode("args", Descriptor(NoSize, TRUE)) >> }

\* Program with main declared with the parameters `params`
ProgramWith(params) == [Program EXCEPT ![1].params = params]

\* the root scope once interpretFile has processed the items of `program`
RootScope(program) ==
    [n \in Identifiers |->
        IF \E i \in 1..Len(program) : program[i].identifier = n
        THEN LET i == CHOOSE k \in 1..Len(program) : program[k].identifier = n
             IN  FunctionDefinitionNode(program[i], TopFile, i)
        ELSE Undefined]

ProgramScope == RootScope(Program)

\* the arguments after the file name on the command line, each a string of bytes
CommandLines == {<<>>, << <<1>>, <<>> >>}

RECURSIVE Flatten(_)
\* commandLineArgs without the sizes: the bytes of the arguments only
Flatten_WithoutSizes(args) ==
    IF args = <<>> THEN <<>>
    ELSE Head(args) \o Flatten(Tail(args))

\* commandLineArgs of interpret(): each argument's size, then its bytes
Flatten(args) ==
    IF args = <<>> THEN <<>>
    ELSE <<Len(Head(args))>> \o Head(args) \o Flatten(Tail(args))

(***************************************************************************)
(* The expressions the statements of main are built from: an operand, an   *)
(* operand with one postfix, an arithmetic node with an operand read from  *)
(* the scope on at least one side, and a call.  The programs of the model  *)
(* call no input or output built-in.                                       *)
(***************************************************************************)
Literals == SeqsUpTo(0..MaxLit, MaxLen)

Descriptors == {Descriptor(n, g) : n \in {NoSize} \cup 0..MaxLen, g \in BOOLEAN}

\* the names an expression of main can read: its variable and its parameters
Readable == VariableNames \cup {"argc", "argv"}

Operands == {Identifier(n) : n \in Readable} \cup {Literal(l) : l \in Literals}

Bounds == {NoValue} \cup {SizeBound(k) : k \in 0..MaxLen}

Postfixes ==
    {ArrayRangeNode(b, e) : b \in Bounds, e \in Bounds} \cup
    {ArrayRangeNode(ExpressionBound(Identifier(n)), NoValue) : n \in Readable} \cup
    {MethodNode(m, <<>>) : m \in {"size", "sqrt", "length"}} \cup
    {MethodNode("append", <<o>>) : o \in Operands} \cup
    {MethodNode("size", <<Identifier(n)>>) : n \in Readable}

Expressions ==
    Operands \cup
    {ExpressionNode(o.primary, <<q>>) : o \in Operands, q \in Postfixes} \cup
    {ExpressionNode(ArithmeticNode(t, l, Identifier(n)), <<>>) :
        t \in ArithmeticTypes, l \in Operands, n \in Readable} \cup
    {ExpressionNode(ArithmeticNode(t, Identifier(n), Literal(r)), <<>>) :
        t \in ArithmeticTypes, n \in Readable, r \in Literals} \cup
    {ExpressionNode(FunctionCallNode(f, <<o>>), <<>>) :
        f \in {"id", "double", "nothing", "range", "undeclared"}, o \in Operands} \cup
    {ExpressionNode(FunctionCallNode("nothing", <<>>), <<>>)}

\* the expressions with a division or a square root: the only ones whose
\* value depends on the outcome of undefined behaviour
Partial ==
    {e \in Expressions :
        \/ e.primary.node = "arithmetic" /\ e.primary.type = "/"
        \/ \E i \in 1..Len(e.postfix) :
              e.postfix[i].node = "method" /\ e.postfix[i].identifier = "sqrt"}

\* what the expressions evaluate to in the scopes of `chain`
SourceValues(chain) ==
    {interpretExpression(e, chain, "value") : e \in Expressions} \cup
    {interpretExpression(e, chain, "trap") : e \in Partial}

\* an array the model keeps in a scope: at most MaxLen elements of 0..MaxLit
Storable(v) ==
    /\ Len(v.data) <= MaxLen
    /\ \A i \in 1..Len(v.data) : v.data[i] \in 0..MaxLit

(***************************************************************************)
(* The record `last` of a handler that ran: its inputs, the binding it was *)
(* about as it was before (storage kind, size and minimum), and how it     *)
(* ended.  The source value and the value made from it are kept when the   *)
(* handler succeeded; of a failed one the source's kind and size are kept. *)
(***************************************************************************)
Shape(binding) ==
    IF IsArray(binding)
    THEN [kind |-> binding.kind, size |-> Len(binding.data), minimum |-> binding.minimum]
    ELSE [kind |-> binding.kind]

Outcome(result) ==
    CASE result.kind = "error" -> "error"
      [] result.kind = "undefined" -> "killed"
      [] OTHER -> "ok"

Event(op, name, descriptor, value, target, result) ==
    [op |-> op, name |-> name, descriptor |-> descriptor,
     source |-> IF Outcome(result) = "ok" THEN value ELSE NoValue,
     sourceKind |-> value.kind,
     sourceSize |-> IF IsArray(value) THEN Len(value.data) ELSE 0,
     target |-> Shape(target),
     value |-> IF Outcome(result) = "ok" THEN result ELSE NoValue,
     result |-> Outcome(result),
     what |-> IF result.kind = "error" THEN result.what ELSE ""]

\* an uncaught exception ends the process with exit(1), undefined behaviour
\* kills it, otherwise the handler returns to the loop of interpretBody
PhaseAfter(result) ==
    CASE result.kind = "error" -> "failed"
      [] result.kind = "undefined" -> "killed"
      [] OTHER -> "returned"

Init ==
    /\ \E params \in MainSignatures :
          /\ files = [f \in FileNames |->
                         IF f = TopFile THEN ProgramWith(params) ELSE <<>>]
          /\ scopes = <<RootScope(ProgramWith(params))>>
    /\ phase = "loaded"
    /\ loadStack = <<>>
    /\ interpretedFiles = <<>>
    /\ reads = [f \in FileNames |-> IF f = TopFile THEN 1 ELSE 0]
    /\ last = NoEvent

\* interpret() after interpretFile: the call of main with [argc] and the
\* flattened arguments, up to the first statement of main's body
InterpretMain(args) ==
    /\ phase = "loaded"
    /\ has(scopes[1], "main")
    /\ LET mainArgs == << Value("vector", <<Len(args)>>, 1),
                          Value("vector", Flatten(args), Len(Flatten(args))) >>
           params == scopes[1]["main"].params
           values == ParameterValues(params, mainArgs)
           result == IF Len(params) /= Len(mainArgs)
                     THEN Thrown("Function main expected " \o ToString(Len(params))
                                     \o " argument(s) but received "
                                     \o ToString(Len(mainArgs)))
                     ELSE IF AnyAbrupt(values) THEN FirstAbrupt(values)
                     ELSE NoValue
       IN  /\ phase' = IF IsAbrupt(result) THEN PhaseAfter(result) ELSE "running"
           /\ scopes' = IF IsAbrupt(result) THEN scopes
                        ELSE Append(scopes, ParameterScope(params, values))
           /\ last' = [op |-> "main", result |-> Outcome(result),
                        what |-> IF result.kind = "error" THEN result.what ELSE "",
                        args |-> args, arguments |-> mainArgs,
                        parameters |-> Len(params)]
    /\ UNCHANGED <<files, loadStack, interpretedFiles, reads>>

\* the handler ended with `result`: the process goes on, fails or is killed
Finish(op, name, descriptor, value, target, result, chain) ==
    /\ phase' = PhaseAfter(result)
    /\ scopes' = IF IsAbrupt(result) THEN scopes ELSE chain
    /\ last' = Event(op, name, descriptor, value, target, result)
    /\ UNCHANGED <<files, loadStack, interpretedFiles, reads>>

\* interpretVariableDeclaration: `let name: descriptor;` with value = NoValue,
\* `let name: descriptor = <expression>;` with the expression's value
interpretVariableDeclaration(name, descriptor, value) ==
    /\ phase = "running"
    /\ LET top    == Len(scopes)
           result == IF IsAbrupt(value) THEN value
                     ELSE fromDescriptor(descriptor, value)
       IN  /\ IsArray(result) => Storable(result)
           /\ Finish("declare", name, descriptor, value, scopes[top][name], result,
                     IF IsAbrupt(result) THEN scopes
                     ELSE [scopes EXCEPT ![top] = define(@, name, result)])

\* interpretVariableAssignment: `name = <expression>;`
interpretVariableAssignment(name, value) ==
    /\ phase = "running"
    /\ IF ~hasRecursive(scopes, name)
       THEN Finish("assign", name, NoValue, NoValue, Undefined,
                   Thrown(name \o " has not been defined"), scopes)
       ELSE /\ IsArray(value) => Storable(value)
            /\ Finish("assign", name, NoValue, value, get(scopes, name), value,
                      IF IsAbrupt(value) THEN scopes ELSE set(scopes, name, value))

\* interpretBody: the statement returned no value, the loop goes on to the
\* next statement
NextStatement ==
    /\ phase = "returned"
    /\ phase' = "running"
    /\ last' = NoEvent
    /\ UNCHANGED <<files, loadStack, interpretedFiles, reads, scopes>>

\* the body of main ends: interpretFunctionCall returns, interpret() returns
MainReturn ==
    /\ phase = "running"
    /\ Len(scopes) = 2
    /\ phase' = "done"
    /\ scopes' = <<scopes[1]>>
    /\ last' = [op |-> "return", result |-> "ok"]
    /\ UNCHANGED <<files, loadStack, interpretedFiles, reads>>

\* a statement of main's body: its expression is evaluated in the scopes as
\* they are when interpretBody reaches it
VariableDeclaration ==
    /\ phase = "running"
    /\ \E value \in {NoValue} \cup SourceValues(scopes) :
          \E name \in VariableNames, descriptor \in Descriptors :
              interpretVariableDeclaration(name, descriptor, value)

VariableAssignment ==
    /\ phase = "running"
    /\ \E value \in SourceValues(scopes) :
          \E name \in VariableNames : interpretVariableAssignment(name, value)

Next ==
    \/ \E args \in CommandLines : InterpretMain(args)
    \/ VariableDeclaration
    \/ VariableAssignment
    \/ NextStatement
    \/ MainReturn

Spec == Init /\ [][Next]_vars

(***************************************************************************)
(* Calls.  CallSpec runs the statements of the bodies of main and of f in  *)
(*     fn main(argc: [1], argv: [+]) -> [+] { ... }                        *)
(*     fn f(p: [+]) -> [+] { ... }                                         *)
(* The bodies are not fixed: main runs every sequence of declarations,     *)
(* assignments and calls `f(...);`, f every sequence of declarations and   *)
(* assignments.  The scope of a call is appended to the chain of its       *)
(* caller: Scope(parent) with parent the scope the call statement runs in. *)
(***************************************************************************)
CallProgram ==
    << Program[1],
       FunctionDefinitionItem("f",
            << FunctionParameterNode("p", Descriptor(NoSize, TRUE)) >>, <<>>) >>

CallInit ==
    /\ files = [f \in FileNames |-> IF f = TopFile THEN CallProgram ELSE <<>>]
    /\ scopes = <<RootScope(CallProgram)>>
    /\ phase = "loaded"
    /\ loadStack = <<>>
    /\ interpretedFiles = <<>>
    /\ reads = [f \in FileNames |-> IF f = TopFile THEN 1 ELSE 0]
    /\ last = NoEvent

\* the expressions of the statements of CallSpec
CallExpressions ==
    {Literal(<<0>>), Literal(<<1>>)} \cup
    {Identifier(n) : n \in CallVariables \cup {"p"}}

\* the argument lists of the calls of f
CallParameters ==
    { <<>>, <<Identifier("a")>>, <<Identifier("a"), Identifier("b")>>,
      <<Identifier("undeclared")>>, <<Identifier("undeclared"), Identifier("a")>> }

\* the scope of a call with its parameters bound
Entered(scope) == [kind |-> "scope", scope |-> scope]

\* interpretFunctionCall comparing the sizes before it looks at the arguments
enterFunctionCall_CountFirst(functionCall, chain) ==
    LET functionDefinition == get(chain, functionCall.identifier)
    IN  IF functionDefinition.kind /= "function" THEN Undefined_Behaviour
        ELSE LET arguments == interpretParameters(functionCall.parameters, chain, "value")
                 params == functionDefinition.params
             IN  IF Len(params) /= Len(arguments)
                 THEN Thrown("Function " \o functionDefinition.identifier
                             \o " expected " \o ToString(Len(params))
                             \o " argument(s) but received "
                             \o ToString(Len(arguments)))
                 ELSE IF AnyAbrupt(arguments) THEN FirstAbrupt(arguments)
                 ELSE LET values == ParameterValues(params, arguments)
                      IN  IF AnyAbrupt(values) THEN FirstAbrupt(values)
                          ELSE Entered(ParameterScope(params, values))

\* interpretFunctionCall on a name a scope defines, up to interpretBody: the
\* arguments, the new scope, the comparison of the sizes, the parameters
enterFunctionCall(functionCall, chain) ==
    LET functionDefinition == get(chain, functionCall.identifier)
    IN  IF functionDefinition.kind /= "function"
        \* *std::get_if<shared_ptr<FunctionDefinitionNode>>(..) on an array
        \* entry dereferences a null pointer
        THEN Undefined_Behaviour
        ELSE LET arguments == interpretParameters(functionCall.parameters, chain, "value")
                 params == functionDefinition.params
             IN  IF AnyAbrupt(arguments) THEN FirstAbrupt(arguments)
                 ELSE IF Len(params) /= Len(arguments)
                 THEN Thrown("Function " \o functionDefinition.identifier
                             \o " expected " \o ToString(Len(params))
                             \o " argument(s) but received "
                             \o ToString(Len(arguments)))
                 ELSE LET values == ParameterValues(params, arguments)
                      IN  IF AnyAbrupt(values) THEN FirstAbrupt(values)
                          ELSE Entered(ParameterScope(params, values))

\* the message of the first argument whose evaluation throws, "" if none does
ArgumentError(parameters, chain) ==
    LET arguments == interpretParameters(parameters, chain, "value")
    IN  IF AnyAbrupt(arguments) /\ FirstAbrupt(arguments).kind = "error"
        THEN FirstAbrupt(arguments).what
        ELSE ""

\* the statement `identifier(parameters);` in the body of main
FunctionCall(identifier, parameters) ==
    /\ phase = "running"
    /\ Len(scopes) = 2
    /\ LET entry   == enterFunctionCall(FunctionCallNode(identifier, parameters), scopes)
           callee  == get(scopes, identifier)
           entered == entry.kind = "scope"
       IN  /\ scopes' = IF entered THEN Append(scopes, entry.scope) ELSE scopes
           /\ phase' = IF entered THEN "running" ELSE PhaseAfter(entry)
           /\ last' = [op |-> "call", name |-> identifier,
                        given |-> Len(parameters),
                        expected |-> IF callee.kind = "function"
                                     THEN Len(callee.params) ELSE -1,
                        argumentError |-> ArgumentError(parameters, scopes),
                        result |-> IF entered THEN "ok" ELSE Outcome(entry),
                        what |-> IF entry.kind = "error" THEN entry.what ELSE ""]
    /\ UNCHANGED <<files, loadStack, interpretedFiles, reads>>

\* the body of f ends: interpretBody returns std::nullopt, the scope of the
\* call is dropped and the statement of main that called f is over
FunctionReturn ==
    /\ phase = "running"
    /\ Len(scopes) = 3
    /\ scopes' = SubSeq(scopes, 1, 2)
    /\ phase' = "returned"
    /\ last' = [op |-> "return", result |-> "ok"]
    /\ UNCHANGED <<files, loadStack, interpretedFiles, reads>>

\* `let name: [+] = <expression>;` in the body that runs
CallDeclaration ==
    /\ phase = "running"
    /\ \E name \in CallVariables, e \in CallExpressions :
          interpretVariableDeclaration(name, Descriptor(NoSize, TRUE),
                                       interpretExpression(e, scopes, "value"))

\* `name = <expression>;` in the body that runs
CallAssignment ==
    /\ phase = "running"
    /\ \E name \in CallVariables \cup {"p", "f"}, e \in CallExpressions :
          interpretVariableAssignment(name, interpretExpression(e, scopes, "value"))

CallNext ==
    \/ InterpretMain(<<>>)
    \/ CallDeclaration
    \/ CallAssignment
    \/ \E parameters \in CallParameters : FunctionCall("f", parameters)
    \/ FunctionReturn
    \/ NextStatement
    \/ MainReturn

CallSpec == CallInit /\ [][CallNext]_vars

(***************************************************************************)
(* interpret() on the files of LoadSpec: interpretFile, then the call of   *)
(* main when the root scope has one.                                       *)
(***************************************************************************)
LoadNext ==
    \/ InterpretBegin
    \/ InterpretUse
    \/ InterpretFunctionDefinition
    \/ InterpretFileReturn
    \/ \E args \in CommandLines : InterpretMain(args)

LoadSpec == LoadInit /\ [][LoadNext]_vars

\* the interpreter is one sequential program: while a step of it is possible
\* it takes one
LoadFairSpec == LoadInit /\ [][LoadNext]_vars /\ WF_vars(LoadNext)

\* how the process ends: exit(1) behind the handler of interpret(),
\* std::terminate for an exception no handler catches, return 0 of main()
ExitStatus ==
    CASE phase = "failed"  -> "exit(1)"
      [] phase = "aborted" -> "std::terminate"
      [] phase = "killed"  -> "undefined"
      [] phase = "done"    -> "return 0"
      [] OTHER             -> "running"

\* the lines the program has written to std::cerr
Stderr == IF phase = "failed" THEN <<"Error: " \o last.what>> ELSE <<>>

\* every value the evaluation handles is an array, an error or the outcome of
\* undefined behaviour
TypeOK ==
    /\ phase \in {"loaded", "running", "returned", "failed", "killed", "done"}
    /\ \A i \in 1..Len(scopes) : \A n \in Identifiers :
          scopes[i][n].kind \in {"none", "function", "vector", "DynamicArray"}

(***************************************************************************)
(* The operators of Value on their own.  The operands are the values the   *)
(* two interpretExpression calls of interpretIfCompare and of              *)
(* interpretArithmetic return: a Fixed value has minimum = length, a       *)
(* Growable one the minimum of a literal (its length) or of a `[+]`        *)
(* declaration (0).                                                        *)
(***************************************************************************)
OperandValues ==
    UNION {{Value("DynamicArray", d, Len(d)), Value("vector", d, Len(d)),
            Value("vector", d, 0)} : d \in SeqsUpTo(0..MaxLit, MaxLen)}

ValueInit ==
    /\ files = [f \in FileNames |-> <<>>]
    /\ phase = "operands"
    /\ loadStack = <<>>
    /\ interpretedFiles = <<>>
    /\ reads = [f \in FileNames |-> 0]
    /\ scopes = <<EmptyScope>>
    /\ \E left, right \in OperandValues :
          last = [op |-> "operands", left |-> left, right |-> right]

\* interpretIfCompare: the switch over the type of the comparison
interpretIfCompare(type) ==
    /\ phase = "operands"
    /\ last' = [op |-> "compare", type |-> type,
                left |-> last.left, right |-> last.right,
                truth |-> ValueCompare(type, last.left, last.right)]
    /\ phase' = "compared"
    /\ UNCHANGED <<files, loadStack, interpretedFiles, reads, scopes>>

\* interpretArithmetic on two evaluated operands
Arithmetic(type, ub) ==
    /\ phase = "operands"
    /\ last' = [op |-> "arithmetic", type |-> type,
                left |-> last.left, right |-> last.right,
                result |-> ValueArithmetic(type, last.left, last.right, ub)]
    /\ phase' = "computed"
    /\ UNCHANGED <<files, loadStack, interpretedFiles, reads, scopes>>

(***************************************************************************)
(* The text of a slice, `[start:end]` or `[start]`, with each bound absent *)
(* (""), an integer literal or the identifier x; what tokenize makes of it *)
(* and of the `;` behind it; and ArrayRangeNode::parse on those tokens.    *)
(***************************************************************************)
Token(type, value) == [type |-> type, value |-> value]

IntLits == {ToString(n) : n \in 0..(MaxLen + 1)}

\* std::stoi on the digits of an INT_LIT token
stoi(digits) == CHOOSE n \in 0..(MaxLen + 1) : ToString(n) = digits

BoundTexts == {""} \cup IntLits \cup {"x"}

RangeTexts ==
    {[start |-> b, colon |-> TRUE, end |-> e] : b \in BoundTexts, e \in BoundTexts}
    \cup {[start |-> b, colon |-> FALSE, end |-> ""] : b \in BoundTexts}

\* tokenize: digits give an INT_LIT, letters an IDENTIFIER, the rest SYMBOLs
tokenizeBound(text) ==
    IF text = "" THEN <<>>
    ELSE IF text \in IntLits THEN <<Token("INT_LIT", text)>>
    ELSE <<Token("IDENTIFIER", text)>>

tokenizeRange(text) ==
    <<Token("SYMBOL", "[")>> \o tokenizeBound(text.start)
    \o (IF text.colon THEN <<Token("SYMBOL", ":")>> ELSE <<>>)
    \o tokenizeBound(text.end)
    \o <<Token("SYMBOL", "]"), Token("SYMBOL", ";")>>

UnexpectedTokenError(source, unexpected, expected) ==
    Thrown("Unexpected token " \o unexpected \o " in " \o source
           \o ". Expected " \o expected)

UnexpectedEOFError(source, expected) ==
    Thrown("Unexpected end of file in " \o source \o ". Expected " \o expected)

\* expect(tokens, i, source, SYMBOL, expectedValue): the error, or NoValue
expect(tokens, i, source, expectedValue) ==
    IF i > Len(tokens) THEN UnexpectedEOFError(source, expectedValue)
    ELSE IF tokens[i].type /= "SYMBOL" \/ tokens[i].value /= expectedValue
    THEN UnexpectedTokenError(source, tokens[i].value, expectedValue)
    ELSE NoValue

\* ExpressionNode::parse at token i, for a bound that is one identifier: the
\* loop takes the identifier and leaves at the symbol behind it
ParseBoundExpression(tokens, i) ==
    CASE tokens[i].type = "IDENTIFIER" ->
            ExpressionNode(IdentifierNode(tokens[i].value), <<>>)
      [] tokens[i].type = "INT_LIT" ->
            Thrown("Unexpected int literal in array expression.")
      [] OTHER -> Thrown("Empty expression.")

\* a node of the syntax tree, not the exception of a parser
IsParsed(node) == "kind" \notin DOMAIN node

\* the second half of ArrayRangeNode::parse: `:` at token i, the upper bound
ParseRangeEnd(tokens, i, start) ==
    LET colon == expect(tokens, i, "Array Range", ":")
        j     == i + 1
    IN  IF colon /= NoValue THEN colon
        ELSE IF j >= Len(tokens)
        THEN UnexpectedEOFError("Array Range", "Lower bound or :")
        ELSE IF tokens[j].type = "INT_LIT"
        THEN LET close == expect(tokens, j + 1, "Array Range", "]")
             IN  IF close /= NoValue THEN close
                 ELSE ArrayRangeNode(start, SizeBound(stoi(tokens[j].value)))
        ELSE IF tokens[j] /= Token("SYMBOL", "]")
        THEN LET e     == ParseBoundExpression(tokens, j)
                 close == expect(tokens, j + 1, "Array Range", "]")
             IN  IF ~IsParsed(e) THEN e
                 ELSE IF close /= NoValue THEN close
                 ELSE ArrayRangeNode(start, ExpressionBound(e))
        ELSE ArrayRangeNode(start, NoValue)

\* ArrayRangeNode::parse with `[` at token 1.  `[n]` with an integer literal
\* returns the range n .. n + 1; behind `[e]` with an expression the node
\* for e + [1] is built and dropped, and the parse goes on to expect `:`
\* behind the `]`
ArrayRangeNode_parse(tokens) ==
    LET open == expect(tokens, 1, "Array Range", "[")
    IN  IF open /= NoValue THEN open
        ELSE IF 2 >= Len(tokens)
        THEN UnexpectedEOFError("Array Range", "Lower bound or :")
        ELSE IF tokens[2].type = "INT_LIT"
        THEN LET startAsSizeT == stoi(tokens[2].value)
             IN  IF 3 <= Len(tokens) /\ tokens[3] = Token("SYMBOL", "]")
                 THEN ArrayRangeNode(SizeBound(startAsSizeT),
                                     SizeBound(startAsSizeT + 1))
                 ELSE ParseRangeEnd(tokens, 3, SizeBound(startAsSizeT))
        ELSE IF tokens[2] /= Token("SYMBOL", ":")
        THEN LET startAsExpression == ParseBoundExpression(tokens, 2)
             IN  IF ~IsParsed(startAsExpression) THEN startAsExpression
                 ELSE IF 3 <= Len(tokens) /\ tokens[3] = Token("SYMBOL", "]")
                 THEN ParseRangeEnd(tokens, 4, ExpressionBound(startAsExpression))
                 ELSE ParseRangeEnd(tokens, 3, ExpressionBound(startAsExpression))
        ELSE ParseRangeEnd(tokens, 2, NoValue)

\* the scope the expressions over the two operands are evaluated in: the
\* functions of Program, p bound to the left and x to the right operand
OperandScope(left, right) ==
    <<[ProgramScope EXCEPT !["p"] = left, !["x"] = right]>>

\* the postfix `text` behind the left operand: RootNode::parse reaches
\* ArrayRangeNode::parse, applyPostfix reaches interpretArrayRange
ArrayRange(text) ==
    /\ phase = "operands"
    /\ LET range == ArrayRangeNode_parse(tokenizeRange(text))
       IN  last' = [op |-> "slice", left |-> last.left, right |-> last.right,
                    text |-> text, range |-> range,
                    result |-> IF IsParsed(range)
                               THEN interpretArrayRange(range, last.left,
                                        OperandScope(last.left, last.right), "value")
                               ELSE range]
    /\ phase' = "sliced"
    /\ UNCHANGED <<files, loadStack, interpretedFiles, reads, scopes>>

\* the values of x a bound of a slice of p reads: one element n, or none
BoundValues ==
    {Value("vector", <<n>>, 1) : n \in 0..(MaxLen + 1)} \cup {Value("vector", <<>>, 0)}

\* the sliced value p and the value of x
SliceInit ==
    /\ files = [f \in FileNames |-> <<>>]
    /\ phase = "operands"
    /\ loadStack = <<>>
    /\ interpretedFiles = <<>>
    /\ reads = [f \in FileNames |-> 0]
    /\ scopes = <<EmptyScope>>
    /\ \E left \in OperandValues, right \in BoundValues :
          last = [op |-> "operands", left |-> left, right |-> right]

SliceNext == \E text \in RangeTexts : ArrayRange(text)

\* the parse and the evaluation of every slice text on every value
SliceSpec == SliceInit /\ [][SliceNext]_vars

\* the arguments of the calls of range: p, p + x and p - x
RangeArguments ==
    {Identifier("p")} \cup
    {ExpressionNode(ArithmeticNode(t, Identifier("p"), Identifier("x")), <<>>) :
        t \in {"+", "-"}}

\* interpretExpression on `range(argument)` and on `range(argument).size()`
Range(argument) ==
    /\ phase = "operands"
    /\ LET chain == OperandScope(last.left, last.right)
           call  == FunctionCallNode("range", <<argument>>)
       IN  last' = [op |-> "range", left |-> last.left, right |-> last.right,
                    argument |-> interpretExpression(argument, chain, "value"),
                    result |-> interpretExpression(ExpressionNode(call, <<>>),
                                                   chain, "value"),
                    size |-> interpretExpression(
                                 ExpressionNode(call, <<MethodNode("size", <<>>)>>),
                                 chain, "value")]
    /\ phase' = "ranged"
    /\ UNCHANGED <<files, loadStack, interpretedFiles, reads, scopes>>

\* the kind of the nearest binding of a name: an array, a function or none
BindingKind(chain, name) ==
    IF ~hasRecursive(chain, name) THEN "none"
    ELSE IF get(chain, name).kind = "function" THEN "function"
    ELSE "array"

\* interpretArray on the identifier `name`
Array(name) ==
    /\ phase = "operands"
    /\ LET chain == OperandScope(last.left, last.right)
       IN  last' = [op |-> "array", left |-> last.left, right |-> last.right,
                    name |-> name, binding |-> BindingKind(chain, name),
                    result |-> interpretArray(IdentifierNode(name), chain, "value")]
    /\ phase' = "read"
    /\ UNCHANGED <<files, loadStack, interpretedFiles, reads, scopes>>

ValueNext ==
    \/ \E type \in CompareTypes : interpretIfCompare(type)
    \/ \E type \in ArithmeticTypes, ub \in UndefinedOutcomes : Arithmetic(type, ub)
    \/ \E argument \in RangeArguments : Range(argument)
    \/ \E name \in {"p", "x", "id", "undeclared"} : Array(name)

ValueSpec == ValueInit /\ [][ValueNext]_vars

(***************************************************************************)
(* ExpressionNode::parse.  The first loop turns the tokens into postfix    *)
(* order on the stack `output` with the stack `operators`; the second      *)
(* builds the tree from the top of `output` downwards.  Stacks are         *)
(* sequences whose last element is the top.                                *)
(***************************************************************************)
\* ArithmeticNode::Precedence of the symbol c
Precedence(c) ==
    CASE c = "(" -> 0
      [] c \in {"+", "-"} -> 1
      [] OTHER -> 2

\* an entry of `operators`: the optional Type (none for a parenthesis) and
\* the precedence
OperatorEntry(c) ==
    [first |-> IF c = "(" THEN "nullopt" ELSE c, second |-> Precedence(c)]

\* the entries of `output`: an ExpressionNode or an ArithmeticNode::Type
OutputExpression(e) == [expression |-> e]

OutputType(type) == [type |-> type]

\* the stacks of the first loop
Stacks(output, operators) == [output |-> output, operators |-> operators]

RECURSIVE PopOperators(_, _, _)
\* while (operators.size() > 0 && operators.top().second >= precedence):
\* output.push(operators.top().first.value()); operators.pop().  value() of
\* the entry of a parenthesis throws std::bad_optional_access
PopOperators(output, operators, precedence) ==
    IF operators = <<>> \/ operators[Len(operators)].second < precedence
    THEN Stacks(output, operators)
    ELSE IF operators[Len(operators)].first = "nullopt"
    THEN Thrown("bad optional access")
    ELSE PopOperators(Append(output, OutputType(operators[Len(operators)].first)),
                      SubSeq(operators, 1, Len(operators) - 1), precedence)

RECURSIVE PopToParenthesis(_, _)
\* the loop of `)`: pop until the top is a LEFT_PARENTHESIS entry
PopToParenthesis(output, operators) ==
    IF operators = <<>> \/ operators[Len(operators)].second = 0
    THEN Stacks(output, operators)
    ELSE PopToParenthesis(Append(output, OutputType(operators[Len(operators)].first)),
                          SubSeq(operators, 1, Len(operators) - 1))

\* MethodNode::parse at the `.` of token i, for a method without parameters
MethodNode_parse(tokens, i) ==
    IF i + 3 > Len(tokens) THEN UnexpectedEOFError("Method", ")")
    ELSE IF tokens[i + 1].type /= "IDENTIFIER"
    THEN UnexpectedTokenError("Method", tokens[i + 1].value, "identifier")
    ELSE IF tokens[i + 2] /= Token("SYMBOL", "(")
    THEN UnexpectedTokenError("Method", tokens[i + 2].value, "(")
    ELSE IF tokens[i + 3] /= Token("SYMBOL", ")")
    THEN UnexpectedTokenError("Method", tokens[i + 3].value, ")")
    ELSE [postfix |-> MethodNode(tokens[i + 1].value, <<>>), i |-> i + 4]

\* the token behind the first `]` at or behind token i
RECURSIVE BehindBracket(_, _)
BehindBracket(tokens, i) ==
    IF i > Len(tokens) \/ tokens[i] = Token("SYMBOL", "]") THEN i + 1
    ELSE BehindBracket(tokens, i + 1)

RECURSIVE ArrayPostFixNode_parse(_, _, _)
\* ArrayPostFixNode::parse: ranges and methods while the token is `[` or `.`
ArrayPostFixNode_parse(tokens, i, result) ==
    IF i > Len(tokens) \/ tokens[i].type /= "SYMBOL" \/ tokens[i].value \notin {"[", "."}
    THEN [postfix |-> result, i |-> i]
    ELSE IF tokens[i].value = "["
    THEN CHOOSE postFix \in
             {IF ~IsParsed(range) THEN range
              ELSE ArrayPostFixNode_parse(tokens, BehindBracket(tokens, i),
                                          Append(result, range)) :
                 range \in {ArrayRangeNode_parse(SubSeq(tokens, i, Len(tokens)))}} : TRUE
    ELSE CHOOSE postFix \in
             {IF "kind" \in DOMAIN method THEN method
              ELSE ArrayPostFixNode_parse(tokens, method.i,
                                          Append(result, method.postfix)) :
                 method \in {MethodNode_parse(tokens, i)}} : TRUE

\* ArrayNode::parse at the `[` of token i: the integer literals up to `]`
RECURSIVE ArrayNode_parse(_, _, _)
ArrayNode_parse(tokens, i, ints) ==
    IF i > Len(tokens) THEN UnexpectedEOFError("Array", "]")
    ELSE IF tokens[i] = Token("SYMBOL", "]")
    THEN [array |-> VectorNode(ints), i |-> i + 1]
    ELSE IF tokens[i].type /= "INT_LIT"
    THEN UnexpectedTokenError("Array", tokens[i].value, "int literal")
    ELSE IF i + 1 > Len(tokens) THEN UnexpectedEOFError("Array", ",")
    ELSE IF tokens[i + 1] = Token("SYMBOL", "]")
    THEN ArrayNode_parse(tokens, i + 1, Append(ints, stoi(tokens[i].value)))
    ELSE IF tokens[i + 1] /= Token("SYMBOL", ",")
    THEN UnexpectedTokenError("Array", tokens[i + 1].value, ",")
    ELSE ArrayNode_parse(tokens, i + 2, Append(ints, stoi(tokens[i].value)))

\* the operand at token i: ArrayNode::parse, then ArrayPostFixNode::parse
OperandNode_parse(tokens, i) ==
    CHOOSE operand \in
        {IF "kind" \in DOMAIN array THEN array
         ELSE CHOOSE behind \in
                  {IF "kind" \in DOMAIN postFix THEN postFix
                   ELSE [expression |-> ExpressionNode(array.array, postFix.postfix),
                         i |-> postFix.i] :
                      postFix \in {ArrayPostFixNode_parse(tokens, array.i, <<>>)}} : TRUE :
            array \in {IF tokens[i].type = "IDENTIFIER"
                       THEN [array |-> IdentifierNode(tokens[i].value), i |-> i + 1]
                       ELSE ArrayNode_parse(tokens, i + 1, <<>>)}} : TRUE

RECURSIVE ShuntingYard(_, _, _, _, _)
\* the first loop of ExpressionNode::parse and the loop that empties
\* `operators` behind it: the stack `output` and the token the loop left at.
\* What one iteration computes is bound once, as the element of a one-element
\* set, before the next iteration uses it.
ShuntingYard(tokens, i, numLeftParentheses, output, operators) ==
    IF \/ i > Len(tokens)
       \/ numLeftParentheses = 0 /\ tokens[i] = Token("SYMBOL", ")")
       \/ tokens[i].type = "SYMBOL"
             /\ tokens[i].value \notin {"[", ")", "+", "-", "*", "/", "("}
    THEN CHOOSE yard \in
             {IF IsParsed(rest) THEN [output |-> rest.output, i |-> i] ELSE rest :
                 rest \in {PopOperators(output, operators, 0)}} : TRUE
    ELSE IF tokens[i].type = "INT_LIT"
    THEN Thrown("Unexpected int literal in array expression.")
    ELSE IF tokens[i].type = "IDENTIFIER" \/ tokens[i].value = "["
    THEN CHOOSE yard \in
             {IF "kind" \in DOMAIN operand THEN operand
              ELSE ShuntingYard(tokens, operand.i, numLeftParentheses,
                                Append(output, OutputExpression(operand.expression)),
                                operators) :
                 operand \in {OperandNode_parse(tokens, i)}} : TRUE
    ELSE IF tokens[i].value = ")"
    THEN CHOOSE yard \in
             {IF popped.operators = <<>>
              THEN Thrown("More ) than ( in array expression.")
              ELSE ShuntingYard(tokens, i + 1, numLeftParentheses - 1, popped.output,
                                SubSeq(popped.operators, 1, Len(popped.operators) - 1)) :
                 popped \in {PopToParenthesis(output, operators)}} : TRUE
    ELSE CHOOSE yard \in
             {IF ~IsParsed(popped) THEN popped
              ELSE ShuntingYard(tokens, i + 1,
                                numLeftParentheses + (IF tokens[i].value = "(" THEN 1 ELSE 0),
                                popped.output,
                                Append(popped.operators, OperatorEntry(tokens[i].value))) :
                 popped \in {PopOperators(output, operators,
                                          Precedence(tokens[i].value))}} : TRUE

\* ArithmeticNode(nullptr, nullptr, type)
EmptyArithmetic(type) == ArithmeticNode(type, NoValue, NoValue)

\* ExpressionNode(std::make_shared<ArithmeticNode>(node), no postfix)
ArithmeticExpression(node) == ExpressionNode(node, <<>>)

RECURSIVE AttachToParent(_)
\* while (result.size() > 1): the finished node on top of `result` becomes
\* the right operand of the node below it, or its left operand, and then
\* that node is finished in turn
AttachToParent(result) ==
    IF Len(result) <= 1 THEN result
    ELSE LET current == result[Len(result)]
             below   == Len(result) - 1
         IN  IF result[below].right = NoValue
             THEN [SubSeq(result, 1, below) EXCEPT
                       ![below].right = ArithmeticExpression(current)]
             ELSE IF result[below].left = NoValue
             THEN AttachToParent([SubSeq(result, 1, below) EXCEPT
                                      ![below].left = ArithmeticExpression(current)])
             ELSE <<Thrown("Invalid array expression")>>

\* one iteration of the second loop: `top` is popped from `output` onto the
\* node on top of `result`
PlaceOnTop(top, result) ==
    LET last_ == Len(result)
    IN  IF "type" \in DOMAIN top
        THEN Append(result, EmptyArithmetic(top.type))
        ELSE IF result[last_].right = NoValue
        THEN [result EXCEPT ![last_].right = top.expression]
        ELSE IF result[last_].left = NoValue
        THEN AttachToParent([result EXCEPT ![last_].left = top.expression])
        ELSE <<Thrown("Invalid array expression")>>

RECURSIVE BuildTree(_, _, _)
\* the second loop of ExpressionNode::parse over the k entries left of
\* `output`; the stack `result` of one iteration is bound once before the
\* next iteration uses it
BuildTree(output, k, result) ==
    IF Len(result) = 1 /\ "kind" \in DOMAIN result[1] THEN result[1]
    ELSE IF k = 0
    THEN IF Len(result) /= 1 THEN Thrown("Invalid array expression")
         ELSE ArithmeticExpression(result[1])
    ELSE CHOOSE tree \in
             {BuildTree(output, k - 1, next) :
                 next \in {PlaceOnTop(output[k], result)}} : TRUE

\* the tree of a stack `output` that is not empty: the one expression on
\* it, or what the second loop builds below the operator on its top
TreeOf(output) ==
    LET top == output[Len(output)]
    IN  IF "expression" \in DOMAIN top
        THEN IF Len(output) > 1 THEN Thrown("Invalid array expression.")
             ELSE top.expression
        ELSE BuildTree(output, Len(output) - 1, <<EmptyArithmetic(top.type)>>)

\* ExpressionNode::parse at token i: the expression and the token behind it
ExpressionNode_parse(tokens, i) ==
    CHOOSE parsed \in
        {IF ~IsParsed(yard) THEN yard
         ELSE IF yard.output = <<>> THEN Thrown("Empty expression.")
         ELSE CHOOSE node \in
                  {IF ~IsParsed(tree) THEN tree
                   ELSE [expression |-> tree, i |-> yard.i] :
                      tree \in {TreeOf(yard.output)}} : TRUE :
            yard \in {ShuntingYard(tokens, i, 0, <<>>, <<>>)}} : TRUE

\* StatementNode::parse behind the `y =` of an assignment: the expression,
\* then expect `;`
StatementExpression_parse(tokens) ==
    CHOOSE statement \in
        {IF ~IsParsed(parsed) THEN parsed
         ELSE LET semicolon == expect(tokens, parsed.i, "Statement", ";")
              IN  IF semicolon /= NoValue THEN semicolon ELSE parsed.expression :
            parsed \in {ExpressionNode_parse(tokens, 1)}} : TRUE

(***************************************************************************)
(* ParseSpec: the token sequences of the arithmetic expressions over the   *)
(* operands a and b with up to three operators, written with the fewest    *)
(* parentheses or with every compound operand in parentheses, alone or     *)
(* with a range or a method behind them, each followed by `;`.             *)
(***************************************************************************)
ExpressionOperands == {Identifier("a"), Identifier("b")}

\* one operator over two operands
SimpleExpressions ==
    {ExpressionNode(ArithmeticNode(t, l, r), <<>>) :
        t \in ArithmeticTypes, l \in ExpressionOperands, r \in ExpressionOperands}

\* one operator over operands that are operands or simple expressions
CompoundExpressions ==
    {ExpressionNode(ArithmeticNode(t, l, r), <<>>) :
        t \in ArithmeticTypes,
        l \in ExpressionOperands \cup SimpleExpressions,
        r \in ExpressionOperands \cup SimpleExpressions}

Symbols(text) == [k \in 1..Len(text) |-> Token("SYMBOL", text[k])]

RECURSIVE Written(_, _, _, _)
\* the tokens of `tree` as an operand on `side` of an operator of precedence
\* `outer`; in the style "full" every compound operand is in parentheses, in
\* the style "fewest" only one the standard rules would group otherwise
Written(tree, outer, side, style) ==
    IF tree.primary.node = "identifier"
    THEN <<Token("IDENTIFIER", tree.primary.name)>>
    ELSE LET inner == Precedence(tree.primary.type)
             plain == Written(tree.primary.left, inner, "left", style)
                      \o Symbols(<<tree.primary.type>>)
                      \o Written(tree.primary.right, inner, "right", style)
         IN  IF \/ style = "full" /\ outer > 0
                \/ inner < outer
                \/ inner = outer /\ side = "right"
             THEN Symbols(<<"(">>) \o plain \o Symbols(<<")">>)
             ELSE plain

\* what is written behind an expression: nothing, `[0:1]` or `.size()`
PostfixTexts ==
    [none  |-> <<>>,
     range |-> <<Token("SYMBOL", "["), Token("INT_LIT", "0"), Token("SYMBOL", ":"),
                 Token("INT_LIT", "1"), Token("SYMBOL", "]")>>,
     size  |-> <<Token("SYMBOL", "."), Token("IDENTIFIER", "size"),
                 Token("SYMBOL", "("), Token("SYMBOL", ")")>>]

\* the statement texts: an expression; a simple expression with a postfix
\* behind it, bare or in parentheses
ParseInit ==
    /\ files = [f \in FileNames |-> <<>>]
    /\ phase = "tokens"
    /\ loadStack = <<>>
    /\ interpretedFiles = <<>>
    /\ reads = [f \in FileNames |-> 0]
    /\ scopes = <<EmptyScope>>
    /\ \/ \E tree \in CompoundExpressions, style \in {"fewest", "full"} :
             last = [op |-> "tokens", tree |-> tree, style |-> style,
                     behind |-> "none",
                     tokens |-> Written(tree, 0, "left", style) \o Symbols(<<";">>)]
       \/ \E tree \in SimpleExpressions, behind \in {"range", "size"} :
             \/ last = [op |-> "tokens", tree |-> tree, style |-> "fewest",
                        behind |-> behind,
                        tokens |-> Written(tree, 0, "left", "fewest")
                                   \o PostfixTexts[behind] \o Symbols(<<";">>)]
             \/ last = [op |-> "tokens", tree |-> tree, style |-> "full",
                        behind |-> behind,
                        tokens |-> Symbols(<<"(">>) \o Written(tree, 0, "left", "fewest")
                                   \o Symbols(<<")">>)
                                   \o PostfixTexts[behind] \o Symbols(<<";">>)]

\* the parse of the statement
ParseExpression ==
    /\ phase = "tokens"
    /\ last' = [last EXCEPT !.op = "parse"] @@
               [result |-> StatementExpression_parse(last.tokens)]
    /\ phase' = "parsed"
    /\ UNCHANGED <<files, loadStack, interpretedFiles, reads, scopes>>

\* the values of a and b the parsed expression is evaluated with
ParsedOperands == {Value("vector", <<1, 0>>, 2), Value("vector", <<1, 1>>, 2)}

\* interpretExpression on the parsed expression, a and b bound in one scope
EvaluateParsed(a, b) ==
    /\ phase = "parsed"
    /\ IsParsed(last.result)
    /\ last' = [last EXCEPT !.op = "evaluate"] @@
               [a |-> a, b |-> b,
                value |-> interpretExpression(
                              last.result,
                              <<[EmptyScope EXCEPT !["a"] = a, !["b"] = b]>>, "value")]
    /\ phase' = "evaluated"
    /\ UNCHANGED <<files, loadStack, interpretedFiles, reads, scopes>>

ParseNext ==
    \/ ParseExpression
    \/ \E a \in ParsedOperands, b \in ParsedOperands : EvaluateParsed(a, b)

ParseSpec == ParseInit /\ [][ParseNext]_vars

(***************************************************************************)
(* ScopeSpec: the operations of class Scope on a chain of scopes, as the   *)
(* handlers of the interpreter call them: interpretFunctionDefinition      *)
(* defines in the root scope while it is the only one, a declaration       *)
(* defines in the current scope, an assignment calls set on the current    *)
(* scope, a block or a call puts a new scope on the chain and takes it off *)
(* again.                                                                  *)
(***************************************************************************)
\* the depth of the chains of ScopeSpec
MaxDepth == 3     \* scopes on one chain

\* the names ScopeSpec binds
ScopeNames == {"a", "f"}

\* the arrays ScopeSpec binds
ScopeArrays == {Value("vector", <<0>>, 1), Value("vector", <<1>>, 1)}

\* the function definitions ScopeSpec binds: two items of the top-level file
\* for every name
ScopeFunctions ==
    {FunctionDefinitionNode(FunctionDefinitionItem(n, <<>>, <<>>), TopFile, index) :
        n \in ScopeNames, index \in 1..2}

ScopeInit ==
    /\ files = [f \in FileNames |-> <<>>]
    /\ phase = "scope"
    /\ loadStack = <<>>
    /\ interpretedFiles = <<>>
    /\ reads = [f \in FileNames |-> 0]
    /\ scopes = <<EmptyScope>>
    /\ last = NoEvent

\* what a step of ScopeSpec leaves of the call: the operation, its name and
\* value, whether it returned or threw
ScopeEvent(op, name, value, result) ==
    [op |-> op, name |-> name, value |-> value, result |-> Outcome(result)]

\* interpretFunctionDefinition(functionDefinition, parent) of interpretFile:
\* parent is the root scope
ScopeFunctionDefinition(functionDefinition) ==
    /\ phase = "scope"
    /\ Len(scopes) = 1
    /\ scopes' = [scopes EXCEPT ![1] =
                     define(@, functionDefinition.identifier, functionDefinition)]
    /\ last' = ScopeEvent("interpretFunctionDefinition", functionDefinition.identifier,
                          functionDefinition, NoValue)
    /\ UNCHANGED <<files, phase, loadStack, interpretedFiles, reads>>

\* lockedScope->define(name, std::make_shared<Value>(value)) of a declaration
ScopeDefine(name, value) ==
    /\ phase = "scope"
    /\ scopes' = [scopes EXCEPT ![Len(scopes)] = define(@, name, value)]
    /\ last' = ScopeEvent("define", name, value, NoValue)
    /\ UNCHANGED <<files, phase, loadStack, interpretedFiles, reads>>

\* lockedScope->set(name, right) on the current scope
ScopeSet(name, value) ==
    /\ phase = "scope"
    /\ LET result == set(scopes, name, value)
           thrown == ~hasRecursive(scopes, name)
       IN  /\ scopes' = IF thrown THEN scopes ELSE result
           /\ last' = ScopeEvent("set", name, value, IF thrown THEN result ELSE NoValue)
    /\ UNCHANGED <<files, phase, loadStack, interpretedFiles, reads>>

\* std::make_shared<Scope>(scope): the scope of a block or of a call
ScopeEnter ==
    /\ phase = "scope"
    /\ Len(scopes) < MaxDepth
    /\ scopes' = Append(scopes, EmptyScope)
    /\ last' = [op |-> "enter"]
    /\ UNCHANGED <<files, phase, loadStack, interpretedFiles, reads>>

\* the block or the call is over: its scope is released
ScopeLeave ==
    /\ phase = "scope"
    /\ Len(scopes) > 1
    /\ scopes' = SubSeq(scopes, 1, Len(scopes) - 1)
    /\ last' = [op |-> "leave"]
    /\ UNCHANGED <<files, phase, loadStack, interpretedFiles, reads>>

ScopeNext ==
    \/ \E functionDefinition \in ScopeFunctions :
          ScopeFunctionDefinition(functionDefinition)
    \/ \E name \in ScopeNames, value \in ScopeArrays : ScopeDefine(name, value)
    \/ \E name \in ScopeNames, value \in ScopeArrays : ScopeSet(name, value)
    \/ ScopeEnter
    \/ ScopeLeave

ScopeSpec == ScopeInit /\ [][ScopeNext]_vars

(***************************************************************************)
(* Statements.  interpretStatement and the handlers it dispatches to, as   *)
(* functions from the scope chain to the scope chain: a Run is the chain   *)
(* the handler leaves, what it returns (NoValue for std::nullopt, a Value  *)
(* for an early return, the exception it throws) and `trace`, the          *)
(* statements and conditions that ran, in order, each with the scope it    *)
(* ran in.  What one statement or iteration leaves is bound once, as the   *)
(* element of a one-element set, before the next one uses it.              *)
(***************************************************************************)
\* iterations of one while loop the model follows
MaxIterations == 3

VariableDeclarationNode(identifier, descriptor, value) ==
    [node |-> "declaration", identifier |-> identifier, descriptor |-> descriptor,
     value |-> value]

VariableAssignmentNode(left, right) ==
    [node |-> "assignment", left |-> left, right |-> right]

IfCompareNode(type, left, right) ==
    [node |-> "compare", type |-> type, left |-> left, right |-> right]

IfDeclarationNode(variableDeclaration) ==
    [node |-> "ifDeclaration", variableDeclaration |-> variableDeclaration]

WhileNode(condition, body) == [node |-> "while", condition |-> condition, body |-> body]

ForLoopNode(element, iterable, body) ==
    [node |-> "for", element |-> element, iterable |-> iterable, body |-> body]

\* elseIfBranches is NoValue where the std::optional is empty; elseBody is
\* the sequence of the one body, or of none
IfNode(condition, body, elseIfBranches, elseBody) ==
    [node |-> "if", condition |-> condition, body |-> body,
     elseIfBranches |-> elseIfBranches, elseBody |-> elseBody]

Run(chain, trace, result) == [chain |-> chain, trace |-> trace, result |-> result]

\* an entry of the trace: what ran, on which name, with which value, in the
\* scope chain[Len(chain)]
Ran(op, name, value, chain) ==
    [op |-> op, name |-> name, value |-> value, depth |-> Len(chain),
     scope |-> chain[Len(chain)]]

\* the scopes above `depth` are released
Leave(run, depth) == [run EXCEPT !.chain = SubSeq(@, 1, depth)]

\* the loop did not end within MaxIterations iterations
StillRunning == [kind |-> "running"]

\* interpretVariableDeclaration as a function of the chain
DeclarationRun(variableDeclaration, chain, trace) ==
    CHOOSE run \in
        {IF IsAbrupt(made) THEN Run(chain, trace, made)
         ELSE CHOOSE declared \in
                  {Run(after,
                       Append(trace, Ran("declare", variableDeclaration.identifier,
                                         made, after)),
                       NoValue) :
                      after \in {[chain EXCEPT ![Len(chain)] =
                                     define(@, variableDeclaration.identifier, made)]}} :
                  TRUE :
            made \in
               {IF variableDeclaration.value = NoValue
                THEN fromDescriptor(variableDeclaration.descriptor, NoValue)
                ELSE CHOOSE array \in
                         {IF IsAbrupt(value) THEN value
                          ELSE fromDescriptor(variableDeclaration.descriptor, value) :
                             value \in {interpretExpression(variableDeclaration.value,
                                                            chain, "value")}} : TRUE}} :
        TRUE

\* interpretVariableAssignment as a function of the chain
AssignmentRun(variableAssignment, chain, trace) ==
    IF ~hasRecursive(chain, variableAssignment.left)
    THEN Run(chain, trace, Thrown(variableAssignment.left \o " has not been defined"))
    ELSE CHOOSE run \in
        {IF IsAbrupt(right) THEN Run(chain, trace, right)
         ELSE CHOOSE assigned \in
                  {Run(after,
                       Append(trace, Ran("assign", variableAssignment.left, right, after)),
                       NoValue) :
                      after \in {set(chain, variableAssignment.left, right)}} : TRUE :
            right \in {interpretExpression(variableAssignment.right, chain, "value")}} :
        TRUE

\* interpretReturn
interpretReturn(returnNode, chain, trace) ==
    CHOOSE run \in
        {Run(chain,
             IF IsAbrupt(value) THEN trace
             ELSE Append(trace, Ran("return", "", value, chain)),
             value) :
            value \in {interpretExpression(returnNode.value, chain, "value")}} : TRUE

\* what a condition leaves: whether it holds, the chain, what it threw
Condition(taken, chain, trace, thrown) ==
    [taken |-> taken, chain |-> chain, thrown |-> thrown,
     trace |-> IF thrown /= NoValue THEN trace
               ELSE Append(trace, [op |-> "condition", taken |-> taken,
                                   depth |-> Len(chain), scope |-> chain[Len(chain)]])]

\* the test of interpretIfDeclaration with `<=` for every descriptor
SizesMatch_AtLeast(descriptor, value) == descriptor.size <= getSize(value)

\* the test of interpretIfDeclaration.  descriptor.getSize() is a
\* std::optional<size_t>: an empty one equals no size and is less than every
\* size, as NoSize is
SizesMatch(descriptor, value) ==
    \/ descriptor.size = getSize(value)
    \/ descriptor.size < getSize(value) /\ descriptor.canGrow

\* interpretIfDeclaration
interpretIfDeclaration(condition, chain, trace) ==
    IF condition.variableDeclaration.value = NoValue
    THEN CHOOSE taken \in
             {Condition(TRUE, declared.chain, declared.trace, declared.result) :
                 declared \in {DeclarationRun(condition.variableDeclaration, chain,
                                              trace)}} : TRUE
    ELSE CHOOSE taken \in
        {IF IsAbrupt(value) THEN Condition(FALSE, chain, trace, value)
         ELSE IF SizesMatch(condition.variableDeclaration.descriptor, value)
         THEN CHOOSE declared \in
                  {IF IsAbrupt(made) THEN Condition(FALSE, chain, trace, made)
                   ELSE Condition(TRUE,
                                  [chain EXCEPT ![Len(chain)] =
                                      define(@, condition.variableDeclaration.identifier,
                                             made)],
                                  trace, NoValue) :
                      made \in {fromDescriptor(condition.variableDeclaration.descriptor,
                                               value)}} : TRUE
         ELSE Condition(FALSE, chain, trace, NoValue) :
            value \in {interpretExpression(condition.variableDeclaration.value, chain,
                                           "value")}} : TRUE

\* interpretIfCompare on the two evaluated sides
CompareRun(condition, chain, trace) ==
    CHOOSE taken \in
        {IF IsAbrupt(sides[1]) THEN Condition(FALSE, chain, trace, sides[1])
         ELSE IF IsAbrupt(sides[2]) THEN Condition(FALSE, chain, trace, sides[2])
         ELSE Condition(ValueCompare(condition.type, sides[1], sides[2]), chain, trace,
                        NoValue) :
            sides \in {[i \in 1..2 |->
                          interpretExpression(<<condition.left, condition.right>>[i],
                                              chain, "value")]}} : TRUE

\* interpretIfCondition
interpretIfCondition(variantCondition, chain, trace) ==
    IF variantCondition.node = "compare"
    THEN CompareRun(variantCondition, chain, trace)
    ELSE interpretIfDeclaration(variantCondition, chain, trace)

RECURSIVE interpretBody(_, _, _, _)
RECURSIVE interpretStatement(_, _, _)
RECURSIVE interpretIf(_, _, _)
RECURSIVE WhileLoop(_, _, _, _)
RECURSIVE WhileLoop_ScopePerIteration(_, _, _, _)
RECURSIVE ForLoop(_, _, _, _, _)
RECURSIVE ForLoop_Reevaluating(_, _, _, _)

\* the loop of interpretWhile in the scope on top of `chain`
WhileLoop(whileNode, chain, trace, iterations) ==
    IF iterations >= MaxIterations THEN Run(chain, trace, StillRunning)
    ELSE CHOOSE run \in
        {IF condition.thrown /= NoValue
         THEN Run(condition.chain, condition.trace, condition.thrown)
         ELSE IF ~condition.taken THEN Run(condition.chain, condition.trace, NoValue)
         ELSE CHOOSE next \in
                  {IF result.result /= NoValue THEN result
                   ELSE WhileLoop(whileNode, result.chain, result.trace, iterations + 1) :
                      result \in {interpretBody(whileNode.body, 1, condition.chain,
                                                condition.trace)}} : TRUE :
            condition \in {interpretIfCondition(whileNode.condition, chain, trace)}} : TRUE

\* the loop of a while that makes a scope for every iteration
WhileLoop_ScopePerIteration(whileNode, chain, trace, iterations) ==
    IF iterations >= MaxIterations THEN Run(chain, trace, StillRunning)
    ELSE CHOOSE run \in
        {IF condition.thrown /= NoValue
         THEN Run(chain, condition.trace, condition.thrown)
         ELSE IF ~condition.taken THEN Run(chain, condition.trace, NoValue)
         ELSE CHOOSE next \in
                  {IF result.result /= NoValue THEN result
                   ELSE WhileLoop_ScopePerIteration(whileNode, result.chain, result.trace,
                                                    iterations + 1) :
                      result \in {Leave(interpretBody(whileNode.body, 1, condition.chain,
                                                      condition.trace),
                                        Len(chain))}} : TRUE :
            condition \in {interpretIfCondition(whileNode.condition,
                                                Append(chain, EmptyScope), trace)}} : TRUE

\* interpretWhile with std::make_shared<Scope>(parentScope) inside the loop
interpretWhile_ScopePerIteration(whileNode, chain, trace) ==
    WhileLoop_ScopePerIteration(whileNode, chain, trace, 0)

\* interpretWhile: one scope for the condition and the body of every iteration
interpretWhile(whileNode, chain, trace) ==
    Leave(WhileLoop(whileNode, Append(chain, EmptyScope), trace, 0), Len(chain))

\* the scope of one iteration of a for loop: the element as DynamicArray(1)
ElementScope(forLoop, element) ==
    define(EmptyScope, forLoop.element, Value("DynamicArray", <<element>>, 1))

\* the loop of interpretForLoop over the elements of the iterable, from the
\* i-th on, in the scopes of `chain`
ForLoop(forLoop, elements, i, chain, trace) ==
    IF i > Len(elements) THEN Run(chain, trace, NoValue)
    ELSE CHOOSE run \in
        {IF returnValue.result /= NoValue THEN returnValue
         ELSE ForLoop(forLoop, elements, i + 1, returnValue.chain, returnValue.trace) :
            returnValue \in
               {LET scope == Append(chain, ElementScope(forLoop, elements[i]))
                IN  Leave(interpretBody(
                              forLoop.body, 1, scope,
                              Append(trace, Ran("iteration", forLoop.element,
                                                scope[Len(scope)][forLoop.element],
                                                scope))),
                          Len(chain))}} : TRUE

\* the loop of a for that evaluates the iterable before every iteration
ForLoop_Reevaluating(forLoop, i, chain, trace) ==
    CHOOSE run \in
        {IF IsAbrupt(iterable) THEN Run(chain, trace, iterable)
         ELSE IF i > Len(iterable.data) THEN Run(chain, trace, NoValue)
         ELSE CHOOSE next \in
                  {IF returnValue.result /= NoValue THEN returnValue
                   ELSE ForLoop_Reevaluating(forLoop, i + 1, returnValue.chain,
                                             returnValue.trace) :
                      returnValue \in
                         {LET scope == Append(chain,
                                              ElementScope(forLoop, iterable.data[i]))
                          IN  Leave(interpretBody(
                                        forLoop.body, 1, scope,
                                        Append(trace,
                                               Ran("iteration", forLoop.element,
                                                   scope[Len(scope)][forLoop.element],
                                                   scope))),
                                    Len(chain))}} : TRUE :
            iterable \in {interpretExpression(forLoop.iterable, chain, "value")}} : TRUE

\* interpretForLoop reading the iterable anew for every iteration
interpretForLoop_Reevaluating(forLoop, chain, trace) ==
    ForLoop_Reevaluating(forLoop, 1, chain, trace)

\* interpretForLoop: the iterable is evaluated in the parent scope, then the
\* same loop runs for a std::vector<int> and for a DynamicArray
interpretForLoop(forLoop, chain, trace) ==
    CHOOSE run \in
        {IF IsAbrupt(iterable) THEN Run(chain, trace, iterable)
         ELSE ForLoop(forLoop, iterable.data, 1, chain, trace) :
            iterable \in {interpretExpression(forLoop.iterable, chain, "value")}} : TRUE

\* the std::pair of interpretIf: the Run and whether a branch was taken
Branch(run, second) == [run |-> run, second |-> second]

\* interpretIf
interpretIf(ifNode, chain, trace) ==
    CHOOSE pair \in
        {IF condition.thrown /= NoValue
         THEN Branch(Run(chain, condition.trace, condition.thrown), TRUE)
         ELSE IF condition.taken
         THEN Branch(Leave(interpretBody(ifNode.body, 1, condition.chain, condition.trace),
                           Len(chain)),
                     TRUE)
         ELSE CHOOSE behind \in
                  {IF elseIfResult.second
                   THEN Branch(Leave(elseIfResult.run, Len(chain)), TRUE)
                   ELSE IF ifNode.elseBody /= <<>>
                   THEN Branch(Leave(interpretBody(ifNode.elseBody[1], 1,
                                                   elseIfResult.run.chain,
                                                   elseIfResult.run.trace),
                                     Len(chain)),
                               TRUE)
                   ELSE Branch(Leave(elseIfResult.run, Len(chain)), FALSE) :
                      elseIfResult \in
                         {IF ifNode.elseIfBranches /= NoValue
                          THEN interpretIf(ifNode.elseIfBranches, condition.chain,
                                           condition.trace)
                          ELSE Branch(Run(condition.chain, condition.trace, NoValue),
                                      FALSE)}} : TRUE :
            condition \in {interpretIfCondition(ifNode.condition,
                                                Append(chain, EmptyScope), trace)}} : TRUE

\* interpretStatement: the std::visit over the kinds of statement
interpretStatement(statement, chain, trace) ==
    CASE statement.node = "declaration" -> DeclarationRun(statement, chain, trace)
      [] statement.node = "assignment" -> AssignmentRun(statement, chain, trace)
      [] statement.node = "for" -> interpretForLoop(statement, chain, trace)
      [] statement.node = "while" -> interpretWhile(statement, chain, trace)
      [] statement.node = "if" -> interpretIf(statement, chain, trace).run
      [] statement.node = "return" -> interpretReturn(statement, chain, trace)

\* interpretBody going on with the next statement whatever a statement returned
interpretBody_ToTheEnd(body, i, chain, trace) ==
    IF i > Len(body) THEN Run(chain, trace, NoValue)
    ELSE CHOOSE run \in
        {IF IsAbrupt(returnValue.result) \/ returnValue.result = StillRunning
            \/ i = Len(body)
         THEN returnValue
         ELSE interpretBody(body, i + 1, returnValue.chain, returnValue.trace) :
            returnValue \in {interpretStatement(body[i], chain, trace)}} : TRUE

\* interpretBody from the i-th statement on
interpretBody(body, i, chain, trace) ==
    IF i > Len(body) THEN Run(chain, trace, NoValue)
    ELSE CHOOSE run \in
        {IF returnValue.result /= NoValue THEN returnValue
         ELSE interpretBody(body, i + 1, returnValue.chain, returnValue.trace) :
            returnValue \in {interpretStatement(body[i], chain, trace)}} : TRUE

\* interpretFunctionCall on a function without parameters, from the new scope
\* on: the body, then the returned value or Value(DynamicArray(0), 0)
CallRun(functionDefinition, chain) ==
    CHOOSE run \in
        {IF returnValue.result = NoValue
         THEN [returnValue EXCEPT !.result = Value("DynamicArray", <<>>, 0)]
         ELSE returnValue :
            returnValue \in {Leave(interpretBody(functionDefinition.body, 1,
                                                 Append(chain, EmptyScope), <<>>),
                                   Len(chain))}} : TRUE

(***************************************************************************)
(* ControlSpec: the call f() in the body of main, with a and b bound in    *)
(* the scope of main, for the bodies of f in ControlBodies:                *)
(*   - b = [1]; return a; b = [0]; inside up to two of: for, while, if,    *)
(*     else-if, else, if-let, followed by nothing or by b = [1, 1];        *)
(*     return b;                                                           *)
(*   - for x : a { ... } with bodies that assign to a, declare y, return;  *)
(*   - while loops that count in b, declare y in the body or x in the      *)
(*     condition;                                                          *)
(*   - if let x: D = a { b = x; } with and without else-if and else.       *)
(***************************************************************************)
Growable == Descriptor(NoSize, TRUE)

Always == IfCompareNode("EQ", Identifier("b"), Identifier("b"))

Never == IfCompareNode("NE", Identifier("b"), Identifier("b"))

Plus(left, right) == ExpressionNode(ArithmeticNode("+", left, right), <<>>)

\* a return with a statement on either side
ReturnInside ==
    << VariableAssignmentNode("b", Literal(<<1>>)),
       ReturnNode(Identifier("a")),
       VariableAssignmentNode("b", Literal(<<0>>)) >>

Wrappers == {"plain", "for", "while", "if", "else if", "else", "if let"}

\* `body` inside the statement of kind `wrapper`
Wrap(wrapper, body) ==
    CASE wrapper = "plain" -> body
      [] wrapper = "for" -> << ForLoopNode("x", Identifier("a"), body) >>
      [] wrapper = "while" -> << WhileNode(Always, body) >>
      [] wrapper = "if" -> << IfNode(Always, body, NoValue, <<>>) >>
      [] wrapper = "else if" ->
            << IfNode(Never, <<>>, IfNode(Always, body, NoValue, <<>>), <<>>) >>
      [] wrapper = "else" ->
            << IfNode(Never, << VariableAssignmentNode("b", Literal(<<0>>)) >>,
                      NoValue, <<body>>) >>
      [] wrapper = "if let" ->
            << IfNode(IfDeclarationNode(
                          VariableDeclarationNode("x", Descriptor(1, TRUE), Identifier("a"))),
                      body, NoValue, <<>>) >>

ReturnBodies ==
    {Wrap(outer, Wrap(inner, ReturnInside)) \o behind :
        outer \in Wrappers, inner \in Wrappers,
        behind \in {<<>>, << VariableAssignmentNode("b", Literal(<<1, 1>>)),
                             ReturnNode(Identifier("b")) >>}}

ForBodies ==
    {<< ForLoopNode("x", Identifier("a"), body) >> :
        body \in
          { << VariableAssignmentNode("b", Identifier("x")) >>,
            << VariableAssignmentNode("a", Literal(<<1>>)),
               VariableAssignmentNode("b", Identifier("x")) >>,
            << VariableAssignmentNode("a", Plus(Identifier("a"), Identifier("a"))) >>,
            << VariableDeclarationNode("y", Growable, Identifier("x")),
               VariableAssignmentNode("b", Identifier("y")) >>,
            << VariableAssignmentNode("b", Identifier("x")),
               IfNode(IfCompareNode("EQ", Identifier("x"), Literal(<<1>>)),
                      << ReturnNode(Identifier("x")) >>, NoValue, <<>>) >> }}

WhileBodies ==
    { \* while b < [2] { let y: [+] = b; b = b + [1]; a = y; }
      << WhileNode(IfCompareNode("LT", Identifier("b"), Literal(<<2>>)),
            << VariableDeclarationNode("y", Growable, Identifier("b")),
               VariableAssignmentNode("b", Plus(Identifier("b"), Literal(<<1>>))),
               VariableAssignmentNode("a", Identifier("y")) >>) >>,
      \* while let x: [2] = a { if b == x { return x; } b = x; a = [1, 1]; }
      << WhileNode(IfDeclarationNode(
                       VariableDeclarationNode("x", Descriptor(2, FALSE), Identifier("a"))),
            << IfNode(IfCompareNode("EQ", Identifier("b"), Identifier("x")),
                      << ReturnNode(Identifier("x")) >>, NoValue, <<>>),
               VariableAssignmentNode("b", Identifier("x")),
               VariableAssignmentNode("a", Literal(<<1, 1>>)) >>) >>,
      \* while let x: [1+] = a { b = x; a = []; }
      << WhileNode(IfDeclarationNode(
                       VariableDeclarationNode("x", Descriptor(1, TRUE), Identifier("a"))),
            << VariableAssignmentNode("b", Identifier("x")),
               VariableAssignmentNode("a", Literal(<<>>)) >>) >>,
      \* while b == b { a = b; }
      << WhileNode(Always, << VariableAssignmentNode("a", Identifier("b")) >>) >> }

\* the descriptors [n], [n+] and [+]
SizedDescriptors ==
    {Descriptor(n, g) : n \in 0..MaxLen, g \in BOOLEAN} \cup {Growable}

IfLetBodies ==
    {<< IfNode(IfDeclarationNode(VariableDeclarationNode("x", d, Identifier("a"))),
               << VariableAssignmentNode("b", Identifier("x")) >>,
               elseIfBranches, elseBody) >> :
        d \in SizedDescriptors \cup {Descriptor(NoSize, FALSE)},
        elseIfBranches \in
           {NoValue,
            IfNode(IfDeclarationNode(
                       VariableDeclarationNode("y", Descriptor(1, FALSE), Identifier("a"))),
                   << VariableAssignmentNode("b", Identifier("y")) >>, NoValue, <<>>)},
        elseBody \in {<<>>, << << VariableAssignmentNode("b", Literal(<<1, 1, 1>>)) >> >>}}

ControlBodies == ReturnBodies \cup ForBodies \cup WhileBodies \cup IfLetBodies

\* what a is bound to in main: literals, a `[2]` and a `[+]` declaration
ControlArrays ==
    {Value("vector", <<>>, 0), Value("vector", <<1>>, 1), Value("vector", <<0, 1>>, 2),
     Value("DynamicArray", <<1, 0>>, 2), Value("vector", <<1, 1>>, 0)}

\* what b is bound to in main
ControlCounters == {Value("vector", <<n>>, 1) : n \in 0..1}

ControlProgram(body) == << FunctionDefinitionItem("f", <<>>, body) >>

ControlInit ==
    /\ \E body \in ControlBodies :
          /\ files = [f \in FileNames |-> IF f = TopFile THEN ControlProgram(body) ELSE <<>>]
          /\ \E a \in ControlArrays, b \in ControlCounters :
                scopes = << RootScope(ControlProgram(body)),
                            [EmptyScope EXCEPT !["a"] = a, !["b"] = b] >>
    /\ phase = "running"
    /\ loadStack = <<>>
    /\ interpretedFiles = <<>>
    /\ reads = [f \in FileNames |-> IF f = TopFile THEN 1 ELSE 0]
    /\ last = NoEvent

\* the statement `f();` of main
ControlCall ==
    /\ phase = "running"
    /\ last = NoEvent
    /\ \E returnValue \in {CallRun(scopes[1]["f"], scopes)} :
          /\ scopes' = returnValue.chain
          /\ phase' = IF returnValue.result = StillRunning THEN "running"
                      ELSE PhaseAfter(returnValue.result)
          /\ last' = [op |-> "call", name |-> "f", body |-> scopes[1]["f"].body,
                      depth |-> Len(scopes) + 1,
                      a |-> scopes[2]["a"], b |-> scopes[2]["b"],
                      result |-> returnValue.result, trace |-> returnValue.trace]
    /\ UNCHANGED <<files, loadStack, interpretedFiles, reads>>

ControlNext == ControlCall

ControlSpec == ControlInit /\ [][ControlNext]_vars

(***************************************************************************)
(* The lexer (src/lexer/tokenize.cpp).  The source text is a sequence of   *)
(* characters, each a string of length one; the value of a token is the    *)
(* string of its characters.  tokenize gives Lexed(tokens) or the error it *)
(* throws.                                                                 *)
(***************************************************************************)
\* items (characters and escapes) between the quotes of a string literal
MaxBody == 2

Quote == "\""

Backslash == "\\"

\* the character '\0', which no string of the model holds
NUL == "<NUL>"

\* std::isalpha, std::isdigit and std::isspace on the characters of the model
IsAlpha == {"a", "n", "t", "r", "q"}

IsDigit == {"0"}

IsSpace == {" ", "\n"}

\* the symbols of tokenize that the model writes
LexSymbols == {";", "+"}

Lexed(tokens) == [kind |-> "tokens", tokens |-> tokens]

Decoded(string) == [kind |-> "string", value |-> string]

RECURSIVE collectWhile(_, _, _)
\* collectWhile: the characters from code[i] on that are in `predicate`
collectWhile(code, i, predicate) ==
    IF i <= Len(code) /\ code[i] \in predicate
    THEN code[i] \o collectWhile(code, i + 1, predicate)
    ELSE ""

RECURSIVE CollectedLength(_, _, _)
\* how far collectWhile moves i
CollectedLength(code, i, predicate) ==
    IF i <= Len(code) /\ code[i] \in predicate
    THEN 1 + CollectedLength(code, i + 1, predicate)
    ELSE 0

\* the switch of interpretEscapes on the character after a backslash
EscapeOf(next) ==
    CASE next = "n" -> Decoded("\n")
      [] next = "t" -> Decoded("\t")
      [] next = "r" -> Decoded("\r")
      [] next = Backslash -> Decoded(Backslash)
      [] next = Quote -> Decoded(Quote)
      [] next = "'" -> Decoded("'")
      [] next = "0" -> Decoded(NUL)
      [] OTHER -> Thrown("Unexpected character after '\\': '" \o next \o "'")

RECURSIVE EscapesFrom(_, _, _)
\* the loop of interpretEscapes from raw[i] on
EscapesFrom(raw, i, result) ==
    IF i > Len(raw) THEN Decoded(result)
    ELSE IF raw[i] = Backslash /\ i + 1 <= Len(raw)
    THEN CHOOSE decoded \in
             {IF IsError(escape) THEN escape
              ELSE EscapesFrom(raw, i + 2, result \o escape.value) :
                 escape \in {EscapeOf(raw[i + 1])}} : TRUE
    ELSE EscapesFrom(raw, i + 1, result \o raw[i])

\* interpretEscapes
interpretEscapes(raw) == EscapesFrom(raw, 1, "")

RECURSIVE StringEnd(_, _)
\* the while loop of the string literal: the first i with code[i] a quote
\* and code[i - 1] no backslash, or Len(code) + 1
StringEnd(code, i) ==
    IF i <= Len(code) /\ (code[i] /= Quote \/ code[i - 1] = Backslash)
    THEN StringEnd(code, i + 1)
    ELSE i

RECURSIVE TokenizeFrom(_, _, _)
\* the for loop of tokenize from code[i] on
TokenizeFrom(code, i, result) ==
    IF i > Len(code) THEN Lexed(result)
    ELSE IF code[i] \in IsAlpha
    THEN TokenizeFrom(code, i + CollectedLength(code, i, IsAlpha \cup IsDigit),
                      Append(result,
                             Token("IDENTIFIER",
                                   collectWhile(code, i, IsAlpha \cup IsDigit))))
    ELSE IF \/ code[i] \in IsDigit
            \/ code[i] = "-" /\ i + 1 <= Len(code) /\ code[i + 1] \in IsDigit
    THEN TokenizeFrom(code, i + 1 + CollectedLength(code, i + 1, IsDigit),
                      Append(result,
                             Token("INT_LIT",
                                   code[i] \o collectWhile(code, i + 1, IsDigit))))
    ELSE IF code[i] = Quote
    THEN CHOOSE lexed \in
             {IF end > Len(code)
              THEN Thrown("Unexpected EOF: String Literal")
              ELSE CHOOSE behind \in
                       {IF IsError(string_lit) THEN string_lit
                        ELSE TokenizeFrom(code, end + 1,
                                          Append(result,
                                                 Token("STRING_LIT", string_lit.value))) :
                           string_lit \in
                              {interpretEscapes(SubSeq(code, i + 1, end - 1))}} : TRUE :
                 end \in {StringEnd(code, i + 1)}} : TRUE
    ELSE IF code[i] = "\n" THEN TokenizeFrom(code, i + 1, result)
    ELSE IF code[i] \in LexSymbols
    THEN TokenizeFrom(code, i + 1, Append(result, Token("SYMBOL", code[i])))
    ELSE IF code[i] \notin IsSpace
    THEN Thrown("Unexpected character '" \o code[i] \o "'")
    ELSE TokenizeFrom(code, i + 1, result)

\* tokenize
tokenize(code) == TokenizeFrom(code, 1, <<>>)

(***************************************************************************)
(* TokenizeSpec: tokenize on a string literal of up to MaxBody items, an   *)
(* item being an ordinary character or a backslash and one character,      *)
(* with or without its closing quote, and with text behind it.             *)
(***************************************************************************)
\* characters that stand for themselves in a literal
OrdinaryCharacters == {"a", "n", " "}

\* the characters the escapes of the language are written with
EscapeCharacters == {"n", "t", "r", Backslash, Quote, "'", "0"}

\* an escape the language does not have
OtherEscapes == {"q"}

Ordinary(character) == [escape |-> FALSE, character |-> character]

Escape(character) == [escape |-> TRUE, character |-> character]

LiteralItems ==
    {Ordinary(c) : c \in OrdinaryCharacters} \cup
    {Escape(c) : c \in EscapeCharacters \cup OtherEscapes}

RECURSIVE WrittenItems(_)
\* the characters the items are written with
WrittenItems(items) ==
    IF items = <<>> THEN <<>>
    ELSE (IF items[1].escape THEN <<Backslash, items[1].character>>
          ELSE <<items[1].character>>) \o WrittenItems(Tail(items))

\* what is written behind the literal
TextsBehind == { <<>>, <<";">>, <<" ", "a", "+", Quote, "a", Quote, ";">> }

TokenizeInit ==
    /\ files = [f \in FileNames |-> <<>>]
    /\ phase = "code"
    /\ loadStack = <<>>
    /\ interpretedFiles = <<>>
    /\ reads = [f \in FileNames |-> 0]
    /\ scopes = <<EmptyScope>>
    /\ \E n \in 0..MaxBody : \E items \in [1..n -> LiteralItems] :
          \E closed \in BOOLEAN, behind \in TextsBehind :
             last = [op |-> "code", items |-> items, closed |-> closed,
                     behind |-> behind,
                     code |-> <<Quote>> \o WrittenItems(items)
                              \o (IF closed THEN <<Quote>> ELSE <<>>) \o behind]

\* tokenize on the text
Tokenize ==
    /\ phase = "code"
    /\ last' = [last EXCEPT !.op = "tokenize"] @@ [result |-> tokenize(last.code)]
    /\ phase' = "lexed"
    /\ UNCHANGED <<files, loadStack, interpretedFiles, reads, scopes>>

TokenizeNext == Tokenize

TokenizeSpec == TokenizeInit /\ [][TokenizeNext]_vars

(***************************************************************************)
(* Notions the claims about declarations and assignments share.            *)
(***************************************************************************)
\* the handler that ran last is a declaration / an assignment
Declared == last.op = "declare"

Assigned == last.op = "assign"

\* its right-hand side evaluated to an array
SourceIsArray == last.sourceKind \in {"vector", "DynamicArray"}

\* it had no right-hand side
NoInitializer == last.sourceKind = "nullopt"

\* the descriptor [n] and the descriptor [n+]
IsFixedDescriptor(d) == d.size /= NoSize /\ ~d.canGrow

IsGrowableDescriptor(d) == d.size /= NoSize /\ d.canGrow

\* the binding of the name of the last handler, in the scopes as they are now
BindingNow == get(scopes, last.name)

\* the declaration was the first of its name in the scope of main
FirstDeclaration == last.target.kind = "none"

(***************************************************************************)
(* C2: for a variable bound to a Growable value with minimum m, the        *)
(* assignment `name = expr` succeeds only if the source has at least m     *)
(* elements, a successful assignment leaves the binding's minimum at m and *)
(* its length at least m, and a shorter source is a runtime error.         *)
(***************************************************************************)
C2_GrowableAssignmentKeepsMinimum ==
    (Assigned /\ last.target.kind = "vector" /\ SourceIsArray) =>
        /\ last.result /= "killed"
        /\ last.result = "ok" =>
              /\ last.sourceSize >= last.target.minimum
              /\ BindingNow.minimum = last.target.minimum
              /\ Len(BindingNow.data) >= last.target.minimum
        /\ last.sourceSize < last.target.minimum => last.result = "error"

(***************************************************************************)
(* C3: for a variable bound to a Fixed value of size n, the assignment     *)
(* `name = expr` with a source of another length is a runtime error, and   *)
(* with a source of length n the binding stays Fixed of size n and holds   *)
(* the source's elements.                                                  *)
(***************************************************************************)
C3_FixedAssignmentKeepsSize ==
    (Assigned /\ last.target.kind = "DynamicArray" /\ SourceIsArray) =>
        /\ last.sourceSize /= last.target.size =>
              last.result = "error" /\ Shape(BindingNow) = last.target
        /\ last.sourceSize = last.target.size =>
              /\ last.result = "ok"
              /\ BindingNow = Value("DynamicArray", last.source.data, last.target.size)

(***************************************************************************)
(* C4: fromDescriptor with a fixed descriptor [n] and an initializer V of  *)
(* either storage kind succeeds exactly when V has n elements; the value   *)
(* is then Fixed with length n, minimum n and the elements of V in order.  *)
(***************************************************************************)
C4_FixedDescriptorWithInitializer ==
    (Declared /\ IsFixedDescriptor(last.descriptor) /\ SourceIsArray) =>
        /\ last.result = "ok" <=> last.sourceSize = last.descriptor.size
        /\ last.result /= "ok" => last.result = "error"
        /\ last.result = "ok" =>
              /\ last.value = Value("DynamicArray", last.source.data,
                                    last.descriptor.size)
              /\ Len(last.value.data) = last.descriptor.size
              /\ FirstDeclaration => BindingNow = last.value

\* a Fixed value was made from a Fixed source of two elements
C4_Witness ==
    /\ Declared /\ IsFixedDescriptor(last.descriptor)
    /\ last.result = "ok"
    /\ last.source.kind = "DynamicArray"
    /\ last.descriptor.size = 2
    /\ BindingNow = last.value

(***************************************************************************)
(* C5 as claimed: `let x: [n];` without an initializer is the runtime      *)
(* error "Static array cannot be defined without a value" and creates no   *)
(* binding for x.                                                          *)
(***************************************************************************)
C5_FixedWithoutInitializerIsError ==
    (Declared /\ IsFixedDescriptor(last.descriptor) /\ NoInitializer) =>
        /\ last.result = "error"
        /\ last.what = "Static array cannot be defined without a value"
        /\ FirstDeclaration => ~hasRecursive(scopes, last.name)

(***************************************************************************)
(* C5 as the code has it: `let x: [n];` binds a Fixed value of n zeros     *)
(* with minimum n; the error "Static array cannot be defined without a     *)
(* value" is raised, and no binding created, by the declaration without an *)
(* initializer whose descriptor `[]` has neither a size nor a `+`.         *)
(***************************************************************************)
C5_FixedWithoutInitializer ==
    (Declared /\ ~last.descriptor.canGrow /\ NoInitializer) =>
        IF last.descriptor.size = NoSize
        THEN /\ last.result = "error"
             /\ last.what = "Static array cannot be defined without a value"
             /\ FirstDeclaration => ~hasRecursive(scopes, last.name)
        ELSE /\ last.result = "ok"
             /\ last.value = Value("DynamicArray", Zeros(last.descriptor.size),
                                   last.descriptor.size)
             /\ FirstDeclaration => BindingNow = last.value

\* `let x: [2];` bound x to [0, 0]
C5_Witness ==
    /\ Declared /\ NoInitializer /\ FirstDeclaration
    /\ last.descriptor = Descriptor(2, FALSE)
    /\ last.result = "ok"
    /\ BindingNow = Value("DynamicArray", <<0, 0>>, 2)

(***************************************************************************)
(* C6: `let x: [n+] = V` requires V to have at least n elements: with      *)
(* fewer it is a runtime error, otherwise the value is Growable with the   *)
(* contents of V and minimum n.                                            *)
(***************************************************************************)
C6_GrowableDescriptorWithInitializer ==
    (Declared /\ IsGrowableDescriptor(last.descriptor) /\ SourceIsArray) =>
        /\ last.sourceSize < last.descriptor.size => last.result = "error"
        /\ last.sourceSize >= last.descriptor.size =>
              /\ last.result = "ok"
              /\ last.value = Value("vector", last.source.data, last.descriptor.size)

(***************************************************************************)
(* C7: `let x: [n+];` without an initializer binds a Growable value of n   *)
(* zeros with minimum n.                                                   *)
(***************************************************************************)
C7_GrowableWithoutInitializer ==
    (Declared /\ IsGrowableDescriptor(last.descriptor) /\ NoInitializer) =>
        /\ last.result = "ok"
        /\ last.value = Value("vector", Zeros(last.descriptor.size),
                              last.descriptor.size)
        /\ FirstDeclaration => BindingNow = last.value

(***************************************************************************)
(* C8: every array Value held in a scope or produced by an expression has  *)
(* length = minimum when its storage is Fixed and length >= minimum when   *)
(* its storage is Growable, after any sequence of declarations,            *)
(* assignments, slices, methods, arithmetic and calls.                     *)
(***************************************************************************)
WellFormed(v) ==
    IsArray(v) =>
        IF v.kind = "DynamicArray" THEN Len(v.data) = v.minimum
                                   ELSE Len(v.data) >= v.minimum

C8_LengthAgainstMinimum ==
    /\ \A i \in 1..Len(scopes) : \A n \in Identifiers : WellFormed(scopes[i][n])
    /\ last.op \in {"declare", "assign"} =>
          WellFormed(last.source) /\ WellFormed(last.value)
    /\ phase = "running" => \A v \in SourceValues(scopes) : WellFormed(v)

\* x holds a Growable value longer than its minimum that came from a Fixed
\* one, next to the Fixed argc of main
C8_Witness ==
    /\ phase = "returned"
    /\ last.op \in {"declare", "assign"}
    /\ last.source.kind = "DynamicArray"
    /\ BindingNow.kind = "vector"
    /\ Len(BindingNow.data) > BindingNow.minimum
    /\ get(scopes, "argc").kind = "DynamicArray"

(***************************************************************************)
(* C9: `a != b` is true if and only if a and b have the same length and    *)
(* a[i] differs from b[i] at every index i; it is false whenever the       *)
(* lengths differ or some pair of corresponding elements is equal.         *)
(***************************************************************************)
C9_NotEqualMeansAllDiffer ==
    (last.op = "compare" /\ last.type = "NE") =>
        LET a == last.left.data
            b == last.right.data
        IN  /\ last.truth <=>
                  (Len(a) = Len(b) /\ \A i \in 1..Len(a) : a[i] /= b[i])
            /\ Len(a) /= Len(b) => ~last.truth
            /\ (Len(a) = Len(b) /\ \E i \in 1..Len(a) : a[i] = b[i]) => ~last.truth

\* [0, 1] != [1, 0] was true, a Growable against a Fixed operand
C9_Witness ==
    /\ last.op = "compare" /\ last.type = "NE"
    /\ last.left = Value("vector", <<0, 1>>, 2)
    /\ last.right = Value("DynamicArray", <<1, 0>>, 2)
    /\ last.truth

(***************************************************************************)
(* C10: for a and b of equal length, `a + b` has that length and element i *)
(* is a[i] + b[i], so a + b and b + a have the same elements; for a and b  *)
(* of different lengths each of + - * / raises a runtime error and yields  *)
(* no value.                                                               *)
(***************************************************************************)
C10_ElementwiseArithmetic ==
    last.op = "arithmetic" =>
        LET a == last.left.data
            b == last.right.data
        IN  IF Len(a) /= Len(b)
            THEN last.result.kind = "error"
            ELSE last.type = "+" =>
                    /\ IsArray(last.result)
                    /\ Len(last.result.data) = Len(a)
                    /\ \A i \in 1..Len(a) : last.result.data[i] = a[i] + b[i]
                    /\ \A ub \in UndefinedOutcomes :
                          last.result.data =
                              ValueArithmetic("+", last.right, last.left, ub).data

\* [1, 0] + [0, 1] gave [1, 1]
C10_Witness ==
    /\ last.op = "arithmetic" /\ last.type = "+"
    /\ last.left.data = <<1, 0>>
    /\ last.right.data = <<0, 1>>
    /\ last.result = Value("DynamicArray", <<1, 1>>, 2)

(***************************************************************************)
(* C11: a slice `v[s:e]` of a value of length L succeeds exactly when      *)
(* s <= e <= L (an absent s is 0, an absent e is L) and is then the Fixed  *)
(* value of length e - s whose element i is v[s + i], otherwise it is a    *)
(* runtime error; `v[n]` is `v[n:n+1]`, whether n is written as an integer *)
(* or as an expression with the one element n.                             *)
(***************************************************************************)
\* the number a bound of the text stands for, or -1 when x is not [n], n >= 0
BoundNumber(text, absent, right) ==
    IF text = "" THEN absent
    ELSE IF text \in IntLits THEN stoi(text)
    ELSE IF Len(right.data) = 1 /\ right.data[1] >= 0 THEN right.data[1]
    ELSE -1

SliceOf(v, s, e) ==
    Value("DynamicArray", [i \in 1..(e - s) |-> v[s + i]], e - s)

C11_SliceSemantics ==
    (last.op = "slice" /\ (last.text.colon \/ last.text.start /= "")) =>
        LET v == last.left.data
            s == BoundNumber(last.text.start, 0, last.right)
            e == IF last.text.colon
                 THEN BoundNumber(last.text.end, Len(v), last.right)
                 ELSE s + 1
        IN  (s >= 0 /\ e >= 0) =>
                IF s <= e /\ e <= Len(v)
                THEN last.result = SliceOf(v, s, e)
                ELSE last.result.kind = "error" /\ IsParsed(last.range)

(***************************************************************************)
(* C12: for every N >= 0, `range([N])` is the array [0, 1, ..., N-1] of    *)
(* length N and `range([N]).size()` is the array [N]; an argument whose    *)
(* length is not 1, or whose one element is negative, is a runtime error.  *)
(***************************************************************************)
C12_RangeAndItsSize ==
    (last.op = "range" /\ IsArray(last.argument)) =>
        LET a == last.argument.data
        IN  IF Len(a) = 1 /\ a[1] >= 0
            THEN /\ IsArray(last.result)
                 /\ last.result.data = [i \in 1..a[1] |-> i - 1]
                 /\ Len(last.result.data) = a[1]
                 /\ IsArray(last.size)
                 /\ last.size.data = <<a[1]>>
            ELSE last.result.kind = "error" /\ last.size.kind = "error"

\* range([1] + [1]) gave [0, 1] and its size [2]
C12_Witness ==
    /\ last.op = "range"
    /\ IsArray(last.argument)
    /\ last.argument.data = <<2>>
    /\ last.result.data = <<0, 1>>
    /\ last.size.data = <<2>>

(***************************************************************************)
(* C17: evaluating an identifier in array position whose nearest binding   *)
(* is a function definition is the runtime error "Cannot use <name> as an  *)
(* array, as it is defined as a function": never a value, never undefined. *)
(***************************************************************************)
C17_FunctionInArrayPosition ==
    (last.op = "array" /\ last.binding = "function") =>
        /\ last.result.kind = "error"
        /\ last.result.what = "Cannot use " \o last.name
                              \o " as an array, as it is defined as a function"

(***************************************************************************)
(* C13: every error (of the lexer, of the parser, of a file that cannot be *)
(* read, be it the top-level file or a used one, of the evaluator in main) *)
(* ends the process with exit status 1 after the one line "Error: " and    *)
(* the message on standard error.                                          *)
(***************************************************************************)
C13_EveryErrorExitsWithStatusOne ==
    (phase \in {"failed", "aborted"}) =>
        /\ ExitStatus = "exit(1)"
        /\ Stderr = <<"Error: " \o last.what>>

(***************************************************************************)
(* C14: when main is defined, interpret calls it with exactly two          *)
(* arguments: the array [k] of the number k of command-line arguments, and *)
(* the array that holds, for each argument in order, its length and then   *)
(* its bytes; a main declared (argc: [1], argv: [+]) starts with these.    *)
(***************************************************************************)
RECURSIVE SumOfSizes(_, _)
\* the sizes of the first j command-line arguments, added up
SumOfSizes(args, j) ==
    IF j = 0 THEN 0 ELSE Len(args[j]) + SumOfSizes(args, j - 1)

C15_SingleParameterMainIsRun ==
    (last.op = "main" /\ last.parameters = 1) =>
        /\ last.result = "ok"
        /\ phase = "running"
        /\ get(scopes, "args").data = Flatten(last.args)

(***************************************************************************)
(* C16: a call of a user-defined function with a number of arguments other *)
(* than its number of parameters is a runtime error; it is raised after    *)
(* the arguments were evaluated (an argument that fails is the error that  *)
(* is reported) and before any parameter is bound or any statement of the  *)
(* body runs (the scopes are as they were before the call).                *)
(***************************************************************************)
C16_ArityCheckedBeforeBinding ==
    [][ (last'.op = "call" /\ last'.expected >= 0 /\ last'.given /= last'.expected) =>
            /\ last'.result = "error"
            /\ phase' = "failed"
            /\ scopes' = scopes
            /\ (last'.argumentError /= "") => (last'.what = last'.argumentError) ]_vars

\* f(a, b) with a and b declared failed in the comparison of the sizes
C16_Witness ==
    /\ last.op = "call"
    /\ last.given = 2
    /\ last.expected = 1
    /\ last.argumentError = ""
    /\ last.what = "Function f expected 1 argument(s) but received 2"
    /\ phase = "failed"

(***************************************************************************)
(* C18: an assignment `f = expr` where f is bound to a function definition *)
(* and expr evaluates to an array is a runtime error, and after it f is    *)
(* still bound to the function definition.                                 *)
(***************************************************************************)
C18_FunctionIsNotAssignedAnArray ==
    (Assigned /\ last.target.kind = "function" /\ SourceIsArray) =>
        /\ last.result = "error"
        /\ \E i \in 1..Len(scopes) : scopes[i][last.name].kind = "function"

(***************************************************************************)
(* C19: arrays have value semantics, no aliasing through names: an         *)
(* assignment to a name replaces the nearest binding of that name and      *)
(* leaves every other binding of every scope as it was; so after           *)
(* `let b: [+] = a;` or after a was passed for the parameter p, assigning  *)
(* to one of a, b, p changes none of the others.                           *)
(***************************************************************************)
\* the innermost scope of the chain that has the name
Innermost(chain, name) ==
    CHOOSE i \in 1..Len(chain) :
        /\ has(chain[i], name)
        /\ \A j \in 1..Len(chain) : has(chain[j], name) => j <= i

ResolvesToInnermost(chain) ==
    \A n \in CallVariables \cup {"p"} :
        (\E i \in 1..Len(chain) : has(chain[i], n)) =>
            interpretExpression(Identifier(n), chain, "value")
                = chain[Innermost(chain, n)][n]

C20_CalleeSeesAndChangesCallerBindings ==
    [][ /\ ResolvesToInnermost(scopes')
        /\ (last'.op = "call" /\ last'.result = "ok") =>
              /\ Len(scopes') = Len(scopes) + 1
              /\ SubSeq(scopes', 1, Len(scopes)) = scopes
              /\ \A n \in Identifiers : has(scopes'[Len(scopes')], n) <=> n = "p"
        /\ (/\ last'.op = "assign"
            /\ last'.sourceKind \in {"vector", "DynamicArray"}
            /\ Len(scopes) = 3
            /\ ~has(scopes[3], last'.name)
            /\ has(scopes[2], last'.name)) =>
              /\ last'.result = "ok"
              /\ scopes'[2][last'.name] = last'.value
              /\ scopes'[3] = scopes[3]
        /\ (last'.op = "return" /\ Len(scopes) = 3) =>
              scopes' = SubSeq(scopes, 1, 2) ]_vars

\* in f: a, not bound in the scope of the call, was assigned [1] and the a
\* of main, which was [0], holds it
C20_Witness ==
    /\ Len(scopes) = 3
    /\ last.op = "assign"
    /\ last.name = "a"
    /\ last.result = "ok"
    /\ ~has(scopes[3], "a")
    /\ last.target.kind = "vector"
    /\ scopes[2]["a"].data = <<1>>

(***************************************************************************)
(* C21: for the token sequences of array operands, + - * / and balanced    *)
(* parentheses, ExpressionNode::parse builds the tree of the standard      *)
(* rules: * and / bind tighter than + and -, equal precedence associates   *)
(* to the left, a parenthesized sub-expression in any operand position is  *)
(* one operand.                                                            *)
(***************************************************************************)
C21_StandardPrecedenceAndGrouping ==
    (last.op = "parse" /\ last.behind = "none") => last.result = last.tree

(***************************************************************************)
(* C28: a postfix written behind an arithmetic expression belongs to the   *)
(* whole expression: `a + b[0:1]`, `a + b.size()`, `(a + b)[0:1]` and      *)
(* `(a + b).size()` are parsed, and the range or the method is applied to  *)
(* the value of a + b.                                                     *)
(***************************************************************************)
\* the postfix node of what is written behind the expression
PostfixNodeOf(behind) ==
    IF behind = "range" THEN ArrayRangeNode(SizeBound(0), SizeBound(1))
    ELSE MethodNode("size", <<>>)

C28_PostfixAppliesToWholeExpression ==
    /\ (last.op = "parse" /\ last.behind /= "none") => IsParsed(last.result)
    /\ (last.op = "evaluate" /\ last.behind /= "none") =>
          last.value = interpretExpression(
                           ExpressionNode(last.tree.primary,
                                          <<PostfixNodeOf(last.behind)>>),
                           <<[EmptyScope EXCEPT !["a"] = last.a, !["b"] = last.b]>>,
                           "value")

(***************************************************************************)
(* C22: Scope::set(name, v) changes the binding of name in the nearest     *)
(* scope of the chain, from the current scope on, that defines name, and   *)
(* nothing else: the bindings of name in farther scopes, every other name  *)
(* and every other scope stay as they were; when no scope of the chain     *)
(* defines name it throws and changes nothing.                             *)
(***************************************************************************)
C22_SetChangesNearestBindingOnly ==
    [][ last'.op = "set" =>
            IF \E i \in 1..Len(scopes) : has(scopes[i], last'.name)
            THEN LET nearest == Innermost(scopes, last'.name)
                 IN  /\ last'.result = "ok"
                     /\ Len(scopes') = Len(scopes)
                     /\ scopes'[nearest][last'.name] = last'.value
                     /\ \A i \in 1..Len(scopes) :
                           IF i = nearest
                           THEN \A n \in Identifiers \ {last'.name} :
                                    scopes'[i][n] = scopes[i][n]
                           ELSE scopes'[i] = scopes[i]
            ELSE /\ last'.result = "error"
                 /\ scopes' = scopes ]_vars

\* three scopes: the root and the second scope define the name, the current
\* scope does not; set has replaced the binding of the second scope and the
\* root still holds another value
C22_Witness ==
    /\ phase = "scope"
    /\ Len(scopes) = 3
    /\ last.op = "set"
    /\ last.result = "ok"
    /\ ~has(scopes[3], last.name)
    /\ scopes[2][last.name] = last.value
    /\ has(scopes[1], last.name)
    /\ scopes[1][last.name] /= last.value

(***************************************************************************)
(* C23: Scope::define on a name the scope already has changes nothing: a   *)
(* second `let x` in one scope keeps the earlier value, and of two         *)
(* top-level functions of one name the one processed first stays bound;    *)
(* define changes no enclosing scope, so a `let` in a nested scope shadows *)
(* an outer name and leaves the outer binding as it was.                   *)
(***************************************************************************)
C23_DefineKeepsFirstAndShadows ==
    [][ last'.op \in {"define", "interpretFunctionDefinition"} =>
            LET target == IF last'.op = "define" THEN Len(scopes) ELSE 1
            IN  /\ Len(scopes') = Len(scopes)
                /\ scopes'[target][last'.name] =
                       IF has(scopes[target], last'.name)
                       THEN scopes[target][last'.name]
                       ELSE last'.value
                /\ \A i \in 1..Len(scopes), n \in Identifiers :
                      (i /= target \/ n /= last'.name) =>
                          scopes'[i][n] = scopes[i][n] ]_vars

\* two scopes: the root holds a function of the name although the other
\* function of that name was defined later or an array was declared there,
\* and the nested scope binds the name to an array
C23_Witness ==
    /\ phase = "scope"
    /\ Len(scopes) = 2
    /\ last.op = "define"
    /\ scopes[2][last.name] /= last.value
    /\ has(scopes[2], last.name)
    /\ has(scopes[1], last.name)
    /\ scopes[1][last.name].kind = "function"
    /\ scopes[1][last.name].index = 1

(***************************************************************************)
(* Claims about statements, under ControlSpec.  `last` holds the call of f *)
(* that ran: its body, what a and b were bound to, the depth of the scope  *)
(* of its body, its result and its trace.                                  *)
(***************************************************************************)
\* the entries of the trace that ran in a scope at `depth`
AtDepth(trace, depth) == SelectSeq(trace, LAMBDA e : e.depth = depth)

EmptyArray == Value("DynamicArray", <<>>, 0)

\* C24: the result of a call is the value of the first return statement that
\* runs in the body, at any nesting depth of for, while, if, else-if and else;
\* nothing of the call runs after that return, and a body that ends without a
\* return gives the empty array.
C24_ResultIsFirstReturn ==
    (last.op = "call" /\ last.name = "f") =>
        LET returns == {i \in 1..Len(last.trace) : last.trace[i].op = "return"}
        IN  /\ \A i \in returns :
                  /\ i = Len(last.trace)
                  /\ last.result = last.trace[i].value
            /\ (returns = {} /\ IsArray(last.result)) => last.result = EmptyArray

\* a return two blocks deep ended a call whose body has statements behind it
C24_Witness ==
    /\ last.op = "call"
    /\ last.name = "f"
    /\ Len(last.body) = 3
    /\ Len(last.trace) > 1
    /\ last.trace[Len(last.trace)].op = "return"
    /\ last.trace[Len(last.trace)].depth = last.depth + 2
    /\ last.result = last.a

\* C25: `for x : a` reads a once, on entry; unless the body returns or
\* throws it runs the body once for every element of that value, in index
\* order, each time in a new scope that binds x to the one-element array of
\* the element and nothing else; what the body assigns to a changes neither
\* the number nor the values of the iterations, and what the body declares
\* is new in every iteration.
C25_ForReadsIterableOnce ==
    (last.op = "call" /\ last.name = "f" /\ last.body[1].node = "for") =>
        LET inLoop == AtDepth(last.trace, last.depth + 1)
            iterations == SelectSeq(inLoop, LAMBDA e : e.op = "iteration")
            elements == last.a.data
            returned == \E i \in 1..Len(last.trace) :
                           /\ last.trace[i].op = "return"
                           /\ last.trace[i].depth > last.depth
            straight == \A i \in 1..Len(last.body[1].body) :
                           last.body[1].body[i].node \in {"assignment", "declaration"}
        IN  /\ Len(iterations) <= Len(elements)
            /\ \A i \in 1..Len(iterations) :
                  /\ iterations[i].value = Value("DynamicArray", <<elements[i]>>, 1)
                  /\ iterations[i].scope =
                        [EmptyScope EXCEPT !["x"] = iterations[i].value]
            /\ (IsArray(last.result) /\ ~returned) => Len(iterations) = Len(elements)
            /\ (IsArray(last.result) /\ straight) =>
                  Len(inLoop) = Len(elements) * (1 + Len(last.body[1].body))
            /\ \A i \in 1..Len(inLoop) :
                  inLoop[i].op = "declare" =>
                     inLoop[i].scope[inLoop[i].name] = inLoop[i].value

\* a loop over two elements whose body changed a in the first iteration
C25_Witness ==
    /\ last.op = "call"
    /\ last.name = "f"
    /\ last.body[1].node = "for"
    /\ IsArray(last.result)
    /\ Len(last.a.data) = 2
    /\ LET inLoop == AtDepth(last.trace, last.depth + 1)
       IN  /\ Len(inLoop) >= 4
           /\ inLoop[2].op = "assign"
           /\ inLoop[2].name = "a"
           /\ inLoop[2].value.data /= last.a.data
           /\ inLoop[3].op = "iteration"
           /\ inLoop[3].value.data = <<last.a.data[2]>>

\* C26: the iterations of one while loop share one scope, made on entry: the
\* condition runs in it before every iteration and ends the loop when it
\* does not hold, and what the condition or the body declared in it stays
\* bound, with the same value, in everything that runs in it later, a later
\* `let` of the same name included.
C26_WhileSharesOneScope ==
    (last.op = "call" /\ last.name = "f" /\ last.body[1].node = "while") =>
        LET inLoop == AtDepth(last.trace, last.depth + 1)
            length == Len(last.body[1].body)
        IN  /\ Len(inLoop) > 0 => inLoop[1].op = "condition"
            /\ \A i \in 1..Len(inLoop) :
                  /\ (inLoop[i].op = "condition" /\ ~inLoop[i].taken) => i = Len(inLoop)
                  /\ (inLoop[i].op = "condition" /\ i + length < Len(inLoop)) =>
                        \E j \in (i + 1)..(i + length + 1) : inLoop[j].op = "condition"
                  /\ i < Len(inLoop) =>
                        \A name \in DOMAIN inLoop[i].scope :
                           has(inLoop[i].scope, name) =>
                              inLoop[i + 1].scope[name] = inLoop[i].scope[name]

\* the body declared y in the second iteration and y kept the value of the
\* first
C26_Witness ==
    /\ last.op = "call"
    /\ last.name = "f"
    /\ last.body[1].node = "while"
    /\ LET inLoop == AtDepth(last.trace, last.depth + 1)
       IN  \E i \in 1..Len(inLoop) : \E j \in (i + 1)..Len(inLoop) :
              /\ inLoop[i].op = "declare"
              /\ inLoop[j].op = "declare"
              /\ inLoop[j].name = inLoop[i].name
              /\ inLoop[j].scope[inLoop[j].name] = inLoop[i].value
              /\ inLoop[j].value /= inLoop[i].value

\* the length L fits the descriptor: L = n for [n], L >= n for [n+], any L
\* for [+]
Compatible(descriptor, length) ==
    IF descriptor.size = NoSize THEN TRUE
    ELSE IF descriptor.canGrow THEN length >= descriptor.size
    ELSE length = descriptor.size

\* C27: `if let x: D = a` takes its branch exactly when the length of a fits
\* D; then x is bound in the scope of the branch with the contents of a;
\* otherwise nothing is thrown, x is not bound, and the else-if or the else
\* part runs.
C27_IfLetTakenIffCompatible ==
    (/\ last.op = "call"
     /\ last.name = "f"
     /\ Len(last.body) = 1
     /\ last.body[1].node = "if"
     /\ last.body[1].condition.node = "ifDeclaration"
     /\ last.body[1].condition.variableDeclaration.descriptor \in SizedDescriptors
     /\ last.body[1].body[1].node = "assignment"
     /\ last.body[1].body[1].right = Identifier("x")) =>
        LET ifNode == last.body[1]
            descriptor == ifNode.condition.variableDeclaration.descriptor
        IN  /\ Len(last.trace) >= 1
            /\ last.trace[1].op = "condition"
            /\ last.trace[1].depth = last.depth + 1
            /\ last.trace[1].taken = Compatible(descriptor, Len(last.a.data))
            /\ last.trace[1].taken =>
                  /\ IsArray(last.trace[1].scope["x"])
                  /\ last.trace[1].scope["x"].data = last.a.data
                  /\ \A i \in 2..Len(last.trace) :
                        /\ last.trace[i].op = "assign"
                        /\ last.trace[i].value.data = last.a.data
            /\ ~last.trace[1].taken =>
                  /\ ~has(last.trace[1].scope, "x")
                  /\ last.result = EmptyArray
                  /\ ifNode.elseIfBranches /= NoValue =>
                        /\ Len(last.trace) >= 2
                        /\ last.trace[2].op = "condition"
                        /\ last.trace[2].depth = last.depth + 2
                        /\ ~has(last.trace[2].scope, "x")
                  /\ (ifNode.elseIfBranches = NoValue /\ ifNode.elseBody /= <<>>) =>
                        /\ Len(last.trace) = 2
                        /\ last.trace[2].op = "assign"
                        /\ last.trace[2].depth = last.depth + 1
                  /\ (ifNode.elseIfBranches = NoValue /\ ifNode.elseBody = <<>>) =>
                        Len(last.trace) = 1

\* a `[1+]` took its branch on two elements
C27_Witness ==
    /\ last.op = "call"
    /\ last.name = "f"
    /\ Len(last.body) = 1
    /\ last.body[1].node = "if"
    /\ last.body[1].condition.node = "ifDeclaration"
    /\ last.body[1].condition.variableDeclaration.descriptor = Descriptor(1, TRUE)
    /\ last.body[1].body[1].node = "assignment"
    /\ last.body[1].body[1].right = Identifier("x")
    /\ Len(last.a.data) = 2
    /\ Len(last.trace) >= 1
    /\ last.trace[1].op = "condition"
    /\ last.trace[1].taken
    /\ last.trace[1].scope["x"].data = last.a.data

\* a `[2]` did not take its branch on one element and the else part ran
C27_WitnessNotTaken ==
    /\ last.op = "call"
    /\ last.name = "f"
    /\ last.body[1].node = "if"
    /\ last.body[1].condition.node = "ifDeclaration"
    /\ last.body[1].condition.variableDeclaration.descriptor = Descriptor(2, FALSE)
    /\ Len(last.trace) = 2
    /\ ~last.trace[1].taken
    /\ last.trace[2].op = "assign"

(***************************************************************************)
(* Claim about the lexer, under TokenizeSpec.                              *)
(***************************************************************************)
RECURSIVE DecodedItems(_)
\* the characters the items stand for
DecodedItems(items) ==
    IF items = <<>> THEN ""
    ELSE (IF items[1].escape THEN EscapeOf(items[1].character).value
          ELSE items[1].character) \o DecodedItems(Tail(items))

\* C29: a string literal of ordinary characters and the escapes \n \t \r \\
\* \" \' \0, in any order, gives one STRING_LIT token that holds the decoded
\* characters, and the scan goes on right behind the closing quote, also
\* when the literal ends with the escape \; another escape and a missing
\* closing quote are errors.
C29_StringLiteralDecoded ==
    last.op = "tokenize" =>
        LET known == \A i \in 1..Len(last.items) :
                        last.items[i].escape =>
                           last.items[i].character \in EscapeCharacters
        IN  IF known /\ last.closed
            THEN /\ last.result.kind = "tokens"
                 /\ last.result.tokens =
                       <<Token("STRING_LIT", DecodedItems(last.items))>>
                          \o tokenize(last.behind).tokens
            ELSE IsError(last.result)

(***************************************************************************)
(* Claim about the end of module loading, under LoadFairSpec.              *)
(***************************************************************************)
\* every stage of interpretFile passes on every file
WellFormedFiles == \A f \in FileNames : FaultOf(f) = "none"

RECURSIVE UsedFrom(_)
\* the files reached from `found` through `use` items
UsedFrom(found) ==
    LET used == {g \in FileNames :
                    \E f \in found : Contains(files[f], UseNode(g))}
    IN  IF used \subseteq found THEN found ELSE UsedFrom(found \cup used)

\* every `fn` item of a file reached from the top-level file has its name
\* bound, in the root scope, to a function of that name of such a file
ReachableFunctionsBound ==
    \A f \in UsedFrom({TopFile}) : \A i \in 1..Len(files[f]) :
        files[f][i].item = "fn" =>
            /\ has(scopes[1], files[f][i].identifier)
            /\ scopes[1][files[f][i].identifier].kind = "function"
            /\ scopes[1][files[f][i].identifier].identifier = files[f][i].identifier
            /\ scopes[1][files[f][i].identifier].file \in UsedFrom({TopFile})

\* C30: when every file can be read, tokenized and parsed, interpretFile on
\* the top-level file returns, whatever the `use` items are (a file that uses
\* itself and cycles included), after at most two loads of a file, and then
\* every function defined in a file reached through `use` is bound in the
\* root scope.
C30_LoadingTerminates ==
    (phase = "start" /\ WellFormedFiles) ~>
        (/\ phase = "loaded"
         /\ loadStack = <<>>
         /\ \A f \in FileNames : reads[f] <= 2
         /\ ReachableFunctionsBound)

\* two files that use each other are loaded, and a function of the second is
\* bound in the root scope
C30_Witness ==
    /\ phase = "loaded"
    /\ WellFormedFiles
    /\ \E other \in FileNames \ {TopFile} :
          /\ Contains(files[TopFile], UseNode(other))
          /\ Contains(files[other], UseNode(TopFile))
          /\ \E name \in FunctionNames :
                /\ has(scopes[1], name)
                /\ scopes[1][name].file = other
====
